---- MODULE Spec2Model ----
(***************************************************************************)
(* The token lifecycle of BlueskyOAuthClient (the storage-backed client,   *)
(* src/unnamed/part_001) next to the stateless client (src/src/oath.ts):   *)
(* the in-memory token fields, the TokenStorage entry of userId, the       *)
(* calls in flight on the session and the promises the code starts and     *)
(* does not await.                                                         *)
(*                                                                         *)
(* Further specifications share the module: SpecLimit (the two            *)
(* checkRateLimit functions), SpecAuth (getAuthorizationUrl behind the     *)
(* limiter), SpecUrl (isValidUrl), SpecWire (the requests of one call      *)
(* after the other, with their DPoP proofs), and one for the constructor   *)
(* and each function that keeps no state: SpecCtor, SpecPkce               *)
(* (generateCodeVerifier), SpecSanitize (sanitizeString) and SpecCsrf      *)
(* (verifyCsrfToken). Each leaves the variables of the others where they   *)
(* start.                                                                  *)
(***************************************************************************)
EXTENDS Integers, Sequences, FiniteSets

(* ------------------------------------------------------------------ *)
(* Bounds of the model                                                 *)
(* ------------------------------------------------------------------ *)
MaxTasks == 2
MaxCalls == 2
MaxClock == 2
MaxLimitCalls == 4
MaxLimitClock == 4
MaxAuthCalls == 2
MaxJtis == 4
MaxInputLen == 3
MaxTokenLen == 2

(* `* 1000` of storeTokens: expires_in is in seconds, Date.now() in ms *)
MsPerSec == 1000

(* ------------------------------------------------------------------ *)
(* JavaScript values                                                   *)
(* ------------------------------------------------------------------ *)
Null == "null"
Undef == "undefined"
None == << >>
Some(x) == << x >>

(* !v for the string-or-null-or-undefined values of the token fields *)
Falsy(v) == v \in {Null, Undef, ""}

(* truthiness of an optional number: absent, null and 0 are falsy *)
NumTruthy(o) == o # None /\ o[1] # 0

TaskIds == 1 .. MaxTasks

ExplicitToken == "ATX"

(* response.data of the token endpoint: JSON null, or an object in which
   each field of TokenResponse may be missing *)
NullBody ==
  [isNull |-> TRUE, access_token |-> Undef, refresh_token |-> Undef,
   expires_in |-> None]

(* a complete token response, and the responses that differ from it in one
   field *)
FullBody ==
  [isNull |-> FALSE, access_token |-> "AT2", refresh_token |-> "RT2",
   expires_in |-> Some(1)]

Bodies ==
  {NullBody, FullBody,
   [FullBody EXCEPT !.access_token = Undef],
   [FullBody EXCEPT !.refresh_token = Undef],
   [FullBody EXCEPT !.expires_in = None],
   [FullBody EXCEPT !.expires_in = Some(0)]}

(* what axios.post / axios.request resolve or reject with *)
NoResponse == [ok |-> FALSE, body |-> NullBody]
Responses == {NoResponse} \cup [ok : {TRUE}, body : Bodies]

(* the value an async method resolves with *)
JsUndefined == [isNull |-> FALSE, access_token |-> "no value",
                refresh_token |-> "no value", expires_in |-> None]

(* ------------------------------------------------------------------ *)
(* State                                                               *)
(* ------------------------------------------------------------------ *)
VARIABLES
  clock,      \* Date.now() in seconds
  mem,        \* this.accessToken, this.refreshToken, this.tokenExpiresAt
  store,      \* the TokenStorage entry of this.userId: << >> or << TokenData >>
  ctor,       \* the loadTokens() promise the constructor starts
  tasks,      \* the calls in flight on the session
  floating,   \* saveTokens calls issued by storeTokens calls nobody awaits
  event,      \* what the last step received and what it left unhandled
  loggedOut,  \* a logout has returned undisturbed and no call started since
  calls       \* number of calls started

(* the rate limiters and getAuthorizationUrl *)
VARIABLES
  options,         \* the RateLimitOptions every call passes
  rateLimitStore,  \* own properties of the object of the in-memory limiter
  redis,           \* the keys of the Redis server
  pexpire,         \* keys whose first INCR is answered, PEXPIRE not yet
  auth,            \* the getAuthorizationUrl call in flight
  window,          \* per key: the fixed window the calls so far define
  admitted,        \* per limiter and key: calls admitted in its window
  last             \* the checkRateLimit call of the last step

(* isValidUrl, and the requests of the calls made one after the other *)
VARIABLES
  checked,         \* the isValidUrl call of the last step
  wire,            \* the call in flight, or the outcome of the last one
  sent,            \* the token and resource requests sent so far
  jtis             \* number of uuidv4() values drawn so far

(* the functions that keep no state: the last call of each *)
VARIABLES
  made,            \* the last new BlueskyOAuthClient(options)
  verifier,        \* the last generateCodeVerifier()
  escaped,         \* the last sanitizeString(input)
  csrf             \* the last verifyCsrfToken(token, sessionToken)

pureVars == << made, verifier, escaped, csrf >>

sessionVars ==
  << mem, store, ctor, tasks, floating, event, loggedOut, calls >>

wireVars == << wire, sent, jtis >>

limitVars ==
  << options, rateLimitStore, redis, pexpire, auth, window, admitted, last >>

(* what the session leaves alone, and what the limiters leave alone *)
gateVars == << limitVars, checked, wireVars, pureVars >>
besideLimitVars == << sessionVars, checked, wireVars, pureVars >>
besidePureVars == << clock, sessionVars, limitVars, checked, wireVars >>

vars == << clock, sessionVars, limitVars, checked, wireVars, pureVars >>

DateNow == clock * MsPerSec

NoTokens ==
  [accessToken |-> Null, refreshToken |-> Null, tokenExpiresAt |-> None]

Absent == << >>

(* nothing received, nothing lost *)
NoEvent == [task |-> 0, resp |-> NoResponse, lost |-> "none"]

(* task t received response r *)
Received(t, r, l) == [task |-> t, resp |-> r, lost |-> l]

(* a promise nobody awaits rejected with l *)
Lost(l) == [task |-> 0, resp |-> NoResponse, lost |-> l]

IdleTask ==
  [op |-> "idle", pc |-> "idle", explicit |-> FALSE, expired |-> FALSE,
   nRefresh |-> 0, nResource |-> 0, hdr |-> Null,
   out |-> "none", err |-> "none", val |-> JsUndefined,
   quiet |-> "no", afterLogout |-> FALSE,
   rt |-> Null, overtaken |-> FALSE]

(* records a TokenStorage may hold when the client is constructed: written
   by an earlier session through storeTokens *)
InitialStores ==
  {Absent,
   << [accessToken |-> "AT1", refreshToken |-> "RT1",
       tokenExpiresAt |-> Some(MsPerSec)] >>,
   << [accessToken |-> "AT1", refreshToken |-> Null,
       tokenExpiresAt |-> Some(MsPerSec)] >>}

(* ------------------------------------------------------------------ *)
(* URLs, addresses and isValidUrl                                      *)
(* ------------------------------------------------------------------ *)
(* a URL string, by the parts new URL(url) finds in it; valid is FALSE
   for a string new URL(url) throws on *)
UrlString(scheme, host, port, path, query, fragment) ==
  [valid |-> TRUE, scheme |-> scheme, host |-> host, port |-> port,
   path |-> path, query |-> query, fragment |-> fragment]

NotAUrl ==
  [valid |-> FALSE, scheme |-> "", host |-> "", port |-> "",
   path |-> "not a url", query |-> "", fragment |-> ""]

ProfileUrl == UrlString("https", "bsky.social", "", "/xrpc/getProfile", "", "")

ProfileQueryUrl ==
  UrlString("https", "bsky.social", "", "/xrpc/getProfile", "actor=alice",
            "top")

MetadataUrl ==
  UrlString("http", "169.254.169.254", "", "/latest/meta-data", "", "")

ParEndpoint == UrlString("https", "bsky.social", "", "/oauth/par", "", "")

TokenEndpoint == UrlString("https", "bsky.social", "", "/oauth/token", "", "")

UrlInputs ==
  {ProfileUrl, ProfileQueryUrl, MetadataUrl, ParEndpoint, NotAUrl,
   UrlString("http", "bsky.social", "", "/xrpc/getProfile", "", ""),
   UrlString("ftp", "bsky.social", "", "/", "", ""),
   UrlString("HTTPS", "BSKY.social", "", "/", "", ""),
   UrlString("https", "bsky.social", "8443", "/", "", ""),
   UrlString("https", "evil.example", "", "/xrpc/getProfile", "", ""),
   UrlString("https", "bsky.social.evil.example", "", "/", "", "")}

(* scheme and host come out of the URL parser in lower case *)
LowerCase(str) ==
  CASE str = "HTTPS" -> "https"
    [] str = "BSKY.social" -> "bsky.social"
    [] OTHER -> str

(* new URL(url): protocol, hostname (no port), pathname, search, hash *)
ParseUrl(url) ==
  [threw |-> ~url.valid,
   protocol |-> LowerCase(url.scheme) \o ":",
   hostname |-> LowerCase(url.host),
   port |-> url.port,
   pathname |-> url.path,
   search |-> url.query,
   hash |-> url.fragment]

ALLOWED_HOSTS == {"bsky.social"}

(* an address of dns.lookup: family 4 with its four octets, or family 6
   with the characters of its first group *)
V4(a, b, c, d) == [family |-> 4, octets |-> << a, b, c, d >>, head |-> << >>]
V6(head) == [family |-> 6, octets |-> << >>, head |-> head]

Addresses ==
  {V4(0, 0, 0, 0), V4(0, 255, 255, 255), V4(1, 0, 0, 0),
   V4(9, 255, 255, 255), V4(10, 0, 0, 0), V4(10, 255, 255, 255),
   V4(11, 0, 0, 0), V4(126, 255, 255, 255), V4(127, 0, 0, 1),
   V4(127, 255, 255, 255), V4(128, 0, 0, 0), V4(169, 254, 169, 254),
   V4(172, 15, 255, 255), V4(172, 16, 0, 0), V4(172, 31, 255, 255),
   V4(172, 32, 0, 0), V4(192, 167, 255, 255), V4(192, 168, 0, 0),
   V4(192, 168, 255, 255), V4(192, 169, 0, 0), V4(8, 8, 8, 8),
   V4(255, 255, 255, 255),
   V6(<< "f", "d", "0", "0" >>), V6(<< "f", "e", "8", "0" >>),
   V6(<< "f", "e", "c", "0" >>), V6(<< "2", "0", "0", "1" >>),
   V6(<< >>)}

(* dns.lookup(hostname, {all: true}): it rejects, or it resolves with one
   or two addresses *)
DnsFail == [ok |-> FALSE, addresses |-> {}]

DnsOutcomes ==
  {DnsFail} \cup
  {[ok |-> TRUE, addresses |-> {a, b}] : a \in Addresses, b \in Addresses}

(* ToInt32(n << 8): the low 24 bits of n move up one byte, and bit 23 of n
   becomes the sign *)
ShiftLeft8(n) ==
  LET low24 == n % 2^24 IN
  IF low24 < 2^23 THEN low24 * 2^8
  ELSE (low24 - 2^23) * 2^8 - 2^30 - 2^30

(* (acc << 8) + parseInt(octet, 10) *)
AddOctet(n, octet) == ShiftLeft8(n) + octet

RECURSIVE Reduce(_, _)
Reduce(octets, acc) ==
  IF octets = << >> THEN acc
  ELSE Reduce(Tail(octets), AddOctet(acc, Head(octets)))

(* the bits of the number with the top bit dropped *)
ToUint32_int31(n) ==
  << (n \div 2^24) % 2^7, (n \div 2^16) % 2^8, (n \div 2^8) % 2^8, n % 2^8 >>

(* n >>> 0: the 32 bits of n read as an unsigned number, written as its
   four bytes, high byte first *)
ToUint32(n) ==
  << (n \div 2^24) % 2^8, (n \div 2^16) % 2^8, (n \div 2^8) % 2^8, n % 2^8 >>

(* ip.split('.').reduce(..., 0) >>> 0 *)
ipToNumber(octets) == ToUint32(Reduce(octets, 0))

(* m <= n for two unsigned numbers written as bytes *)
RECURSIVE NumLeq(_, _)
NumLeq(m, n) ==
  \/ m = << >>
  \/ Head(m) < Head(n)
  \/ Head(m) = Head(n) /\ NumLeq(Tail(m), Tail(n))

privateRanges ==
  {[start |-> << 10, 0, 0, 0 >>, end |-> << 10, 255, 255, 255 >>],
   [start |-> << 172, 16, 0, 0 >>, end |-> << 172, 31, 255, 255 >>],
   [start |-> << 192, 168, 0, 0 >>, end |-> << 192, 168, 255, 255 >>],
   [start |-> << 127, 0, 0, 0 >>, end |-> << 127, 255, 255, 255 >>],
   [start |-> << 0, 0, 0, 0 >>, end |-> << 0, 255, 255, 255 >>]}

(* ip.startsWith(prefix) on the first group of an IPv6 address *)
StartsWith(chars, prefix) ==
  /\ Len(chars) >= Len(prefix)
  /\ SubSeq(chars, 1, Len(prefix)) = prefix

(* the loopback range left out of the list *)
isPrivateIp_noLoopback(ip) ==
  IF ip.family = 4
  THEN \E range \in privateRanges :
         /\ range.start[1] # 127
         /\ NumLeq(ipToNumber(range.start), ipToNumber(ip.octets))
         /\ NumLeq(ipToNumber(ip.octets), ipToNumber(range.end))
  ELSE \/ StartsWith(ip.head, << "f", "d" >>)
       \/ StartsWith(ip.head, << "f", "e", "8", "0" >>)

isPrivateIp(ip) ==
  IF ip.family = 4
  THEN \E range \in privateRanges :
         /\ NumLeq(ipToNumber(range.start), ipToNumber(ip.octets))
         /\ NumLeq(ipToNumber(ip.octets), ipToNumber(range.end))
  ELSE \/ StartsWith(ip.head, << "f", "d" >>)
       \/ StartsWith(ip.head, << "f", "e", "8", "0" >>)

(* how a function ends: it returns a boolean, or it throws *)
Returns(v) == [threw |-> FALSE, result |-> v]
Throws == [threw |-> TRUE, result |-> FALSE]

(* the try block of isValidUrl(url), with dns the outcome of the lookup it
   makes: new URL and dns.lookup may throw *)
isValidUrlTry(url, dns) ==
  LET parsedUrl == ParseUrl(url) IN
  IF parsedUrl.threw THEN Throws
  ELSE IF parsedUrl.protocol # "https:" THEN Returns(FALSE)
  ELSE IF parsedUrl.hostname \notin ALLOWED_HOSTS THEN Returns(FALSE)
  ELSE IF ~dns.ok THEN Throws
  ELSE Returns(~ \E addr \in dns.addresses : isPrivateIp(addr))

(* catch { return false; } *)
isValidUrl(url, dns) ==
  IF isValidUrlTry(url, dns).threw THEN Returns(FALSE)
  ELSE isValidUrlTry(url, dns)

(* ------------------------------------------------------------------ *)
(* Values of the rate limiters                                         *)
(* ------------------------------------------------------------------ *)
(* keys the callers of checkRateLimit pass: a user name, and a user name
   that is also a property every object literal inherits *)
InheritedKeys == {"constructor"}
LimitKeys == {"user1"} \cup InheritedKeys

(* the userKey of getAuthorizationUrl *)
AuthKeys == {"ip1"}

RedisKeys == LimitKeys \cup AuthKeys

(* RateLimitOptions: a positive limit and a window of whole seconds *)
Configs == [maxRequests : {1, 2}, windowMs : {MsPerSec, 2 * MsPerSec}]

NoCall ==
  [key |-> Null, nth |-> 0, renewed |-> FALSE, mem |-> FALSE, redis |-> FALSE]

IdleAuth ==
  [pc |-> "idle", variant |-> "none", key |-> Null, limit |-> "none",
   pkce |-> FALSE, par |-> 0, out |-> "none", err |-> "none", n |-> 0,
   codeVerifier |-> None, codeChallenge |-> None, data |-> None,
   returned |-> None]

NoWindow == [start |-> None, n |-> 0]

(* no limiter has been called *)
LimitIdle ==
  /\ rateLimitStore = [k \in LimitKeys |-> Absent]
  /\ redis = [k \in RedisKeys |-> Absent]
  /\ pexpire = {}
  /\ auth = IdleAuth
  /\ window = [k \in LimitKeys |-> NoWindow]
  /\ admitted = [l \in {"mem", "redis"} |-> [k \in LimitKeys |-> 0]]
  /\ last = NoCall

NoCheck == [url |-> NotAUrl, dns |-> DnsFail, out |-> Throws, n |-> 0]

IdleWire ==
  [op |-> "idle", pc |-> "idle", method |-> Null, url |-> NotAUrl,
   token |-> Null, checkedUrls |-> {}, out |-> "none", err |-> "none"]

(* no client constructed by a call of the model *)
NotMade ==
  [n |-> 0, variant |-> Null, options |-> None, threw |-> "none",
   client |-> None, loads |-> 0]

(* generateCodeVerifier not called *)
NoVerifier ==
  [n |-> 0, variant |-> Null, bytes |-> None, out |-> None,
   threw |-> "none"]

(* sanitizeString not called *)
NotEscaped == [n |-> 0, input |-> << >>, out |-> << >>]

(* verifyCsrfToken not called *)
NotVerified ==
  [n |-> 0, token |-> << >>, sessionToken |-> << >>, threw |-> FALSE,
   result |-> FALSE]

PureIdle ==
  /\ made = NotMade
  /\ verifier = NoVerifier
  /\ escaped = NotEscaped
  /\ csrf = NotVerified

(* no isValidUrl call made, no request sent, no function called *)
GateIdle ==
  /\ checked = NoCheck
  /\ wire = IdleWire
  /\ sent = << >>
  /\ jtis = 0
  /\ PureIdle

(* the session before its constructor has loaded anything, no call made *)
SessionIdle ==
  /\ mem = NoTokens
  /\ ctor = [pc |-> "loading", val |-> Absent]
  /\ tasks = [t \in TaskIds |-> IdleTask]
  /\ floating = {}
  /\ event = NoEvent
  /\ loggedOut = FALSE
  /\ calls = 0

Init ==
  /\ options = [maxRequests |-> 1, windowMs |-> MsPerSec]
  /\ LimitIdle
  /\ GateIdle
  /\ clock = 1
  /\ mem = NoTokens
  /\ store \in InitialStores
  /\ ctor = [pc |-> "loading", val |-> Absent]
  /\ tasks = [t \in TaskIds |-> IdleTask]
  /\ floating = {}
  /\ event = NoEvent
  /\ loggedOut = FALSE
  /\ calls = 0

(* a call has just returned or thrown: its caller takes the outcome before
   anything else happens *)
Returning == \E t \in TaskIds : tasks[t].pc = "done"

Running(t) == tasks[t].pc \notin {"idle", "done"}

NothingInFlight ==
  /\ \A t \in TaskIds : ~Running(t)
  /\ floating = {}
  /\ ctor.pc = "done"

(* ------------------------------------------------------------------ *)
(* storeTokens                                                         *)
(* ------------------------------------------------------------------ *)
(* tokenResponse.access_token of null throws inside the async function *)
StoreTokensThrows(body) == body.isNull

TokenExpiry(expires_in, nowMs) ==
  IF NumTruthy(expires_in) THEN Some(nowMs + expires_in[1] * MsPerSec)
  ELSE None

(* the old refresh token kept when the response has none *)
StoreTokensMem_merge(body, nowMs) ==
  [accessToken |-> body.access_token,
   refreshToken |-> IF Falsy(body.refresh_token) THEN mem.refreshToken
                    ELSE body.refresh_token,
   tokenExpiresAt |-> TokenExpiry(body.expires_in, nowMs)]

StoreTokensMem(body, nowMs) ==
  [accessToken |-> body.access_token,
   refreshToken |-> IF Falsy(body.refresh_token) THEN Null
                    ELSE body.refresh_token,
   tokenExpiresAt |-> TokenExpiry(body.expires_in, nowMs)]

(* the part of storeTokens that runs before the caller goes on: the fields
   are assigned and saveTokens is called; its promise is left to itself *)
StoreTokens(body) ==
  IF StoreTokensThrows(body)
  THEN /\ mem' = mem
       /\ floating' = floating
  ELSE /\ mem' = StoreTokensMem(body, DateNow)
       /\ floating' = floating \cup {StoreTokensMem(body, DateNow)}

(* the rejection of the storeTokens promise, which has no handler *)
StoreTokensLost(body) == IF StoreTokensThrows(body) THEN "TypeError" ELSE "none"

(* the saveTokens call of a storeTokens settles: it writes, or it fails
   and the rejection has no handler *)
SaveTokensSettles ==
  /\ ~Returning
  /\ \E d \in floating, ok \in BOOLEAN :
       /\ floating' = floating \ {d}
       /\ store' = IF ok THEN << d >> ELSE store
       /\ event' = IF ok THEN NoEvent ELSE Lost("StorageError")
  /\ UNCHANGED << clock, mem, ctor, tasks, loggedOut, calls >>

(* ------------------------------------------------------------------ *)
(* constructor: this.loadTokens().catch(...)                           *)
(* ------------------------------------------------------------------ *)
CtorLoadReads ==
  /\ ~Returning
  /\ ctor.pc = "loading"
  /\ ctor' = [pc |-> "loaded", val |-> store]
  /\ event' = NoEvent
  /\ UNCHANGED << clock, mem, store, tasks, floating, loggedOut, calls >>

(* the catch handler throws OAuthTokenError into a promise nobody holds *)
CtorLoadFails ==
  /\ ~Returning
  /\ ctor.pc = "loading"
  /\ ctor' = [pc |-> "done", val |-> Absent]
  /\ event' = Lost("OAuthTokenError")
  /\ UNCHANGED << clock, mem, store, tasks, floating, loggedOut, calls >>

LoadTokensMem(tokenData) ==
  IF tokenData # Absent THEN tokenData[1] ELSE NoTokens

CtorLoadReturns ==
  /\ ~Returning
  /\ ctor.pc = "loaded"
  /\ mem' = LoadTokensMem(ctor.val)
  /\ ctor' = [pc |-> "done", val |-> Absent]
  /\ event' = NoEvent
  /\ UNCHANGED << clock, store, tasks, floating, loggedOut, calls >>

(* ------------------------------------------------------------------ *)
(* calls                                                               *)
(* ------------------------------------------------------------------ *)
(* a call that starts ends the quiet of every logout under way *)
Disturbed(ts) ==
  [t \in TaskIds |-> IF ts[t].op = "logout"
                     THEN [ts[t] EXCEPT !.quiet = "no"] ELSE ts[t]]

(* the slots are interchangeable: a call takes the first free one *)
CanStart(t) ==
  /\ ~Returning
  /\ tasks[t].pc = "idle"
  /\ \A u \in TaskIds : u < t => tasks[u].pc # "idle"
  /\ calls < MaxCalls

Started(t, rec) ==
  /\ tasks' = [Disturbed(tasks) EXCEPT
                 ![t] = [rec EXCEPT !.afterLogout = loggedOut]]
  /\ calls' = calls + 1
  /\ loggedOut' = FALSE

(* the error classes the token calls throw: handleCallback's catch,
   refreshAccessToken's catch, and makeAuthenticatedRequest without a token *)
ExchangeErrorKind == "OAuthTokenRequestError"

RefreshErrorKind == "OAuthTokenRequestError"

TokenMissingErrorKind == "OAuthTokenError"

Failed(rec, kind) == [rec EXCEPT !.pc = "done", !.out = "err", !.err = kind]

Returned(rec, v) == [rec EXCEPT !.pc = "done", !.out = "ok", !.val = v]

Tick ==
  /\ ~Returning
  /\ clock < MaxClock
  /\ clock' = clock + 1
  /\ event' = NoEvent
  /\ UNCHANGED << mem, store, ctor, tasks, floating, loggedOut, calls >>

(* the caller has the outcome *)
Retire(t) ==
  /\ tasks[t].pc = "done"
  /\ tasks' = [tasks EXCEPT ![t] = IdleTask]
  /\ event' = NoEvent
  /\ UNCHANGED << clock, mem, store, ctor, floating, loggedOut, calls >>

(* ------------------------------------------------------------------ *)
(* handleCallback                                                      *)
(* ------------------------------------------------------------------ *)
(* generateDpopProof, then the POST to the token endpoint is on its way *)
HandleCallbackStart(t) ==
  /\ CanStart(t)
  /\ \E variant \in {"handleCallback", "statelessCallback"},
        signOk \in BOOLEAN :
       LET rec == [IdleTask EXCEPT !.op = variant] IN
       Started(t, IF signOk THEN [rec EXCEPT !.pc = "post"]
                  ELSE Failed(rec, "DPopProofError"))
  /\ event' = NoEvent
  /\ UNCHANGED << clock, mem, store, ctor, floating >>

(* the storage-backed client: nothing is returned *)
HandleCallbackResult(body) == JsUndefined

HandleCallbackResponse(t) ==
  /\ ~Returning
  /\ tasks[t].op = "handleCallback"
  /\ tasks[t].pc = "post"
  /\ \E r \in Responses :
       LET rec == tasks[t] IN
       IF r.ok
       THEN /\ StoreTokens(r.body)
            /\ event' = Received(t, r, StoreTokensLost(r.body))
            /\ tasks' = [tasks EXCEPT
                           ![t] = Returned(rec, HandleCallbackResult(r.body))]
       ELSE /\ tasks' = [tasks EXCEPT
                           ![t] = Failed(rec, ExchangeErrorKind)]
            /\ event' = Received(t, r, "none")
            /\ UNCHANGED << mem, floating >>
  /\ UNCHANGED << clock, store, ctor, loggedOut, calls >>

(* the stateless client: return response.data *)
StatelessCallbackResult(body) == body

StatelessCallbackResponse(t) ==
  /\ ~Returning
  /\ tasks[t].op = "statelessCallback"
  /\ tasks[t].pc = "post"
  /\ \E r \in Responses :
       LET rec == tasks[t] IN
       /\ tasks' = [tasks EXCEPT
                      ![t] = IF r.ok
                             THEN Returned(rec, StatelessCallbackResult(r.body))
                             ELSE Failed(rec, ExchangeErrorKind)]
       /\ event' = Received(t, r, "none")
  /\ UNCHANGED << clock, mem, store, ctor, floating, loggedOut, calls >>

(* ------------------------------------------------------------------ *)
(* makeAuthenticatedRequest and refreshAccessToken                     *)
(* ------------------------------------------------------------------ *)
ProfileData == [id |-> "did", name |-> "name", handle |-> "handle"]

(* the token is at or past the instant stored with it *)
PastExpiry(m, nowMs) ==
  m.tokenExpiresAt # None /\ nowMs >= m.tokenExpiresAt[1]

(* the expiry check left out *)
NeedsRefresh_never(m, nowMs) == FALSE

(* this.tokenExpiresAt && Date.now() >= this.tokenExpiresAt *)
NeedsRefresh(m, nowMs) ==
  NumTruthy(m.tokenExpiresAt) /\ nowMs >= m.tokenExpiresAt[1]

(* the check of the refresh token left out *)
CanRefresh_always(m) == TRUE

(* if (this.refreshToken) *)
CanRefresh(m) == ~Falsy(m.refreshToken)

(* the token read before the refresh instead of after it *)
RefreshedToken_stale(before, after) == before.accessToken

(* accessToken = this.accessToken, read after the await of the refresh *)
RefreshedToken(before, after) == after.accessToken

MakeRequestStart(t) ==
  /\ CanStart(t)
  /\ \E explicit \in BOOLEAN, signOk \in BOOLEAN :
       LET rec == [IdleTask EXCEPT
                     !.op = "makeAuthenticatedRequest",
                     !.explicit = explicit,
                     !.expired = ~explicit /\ PastExpiry(mem, DateNow)]
           send(tok) ==
             IF signOk
             THEN [rec EXCEPT !.pc = "resource", !.nResource = 1, !.hdr = tok]
             ELSE Failed(rec, "DPopProofError")
       IN Started(t,
            IF explicit THEN send(ExplicitToken)
            ELSE IF Falsy(mem.accessToken) THEN Failed(rec, TokenMissingErrorKind)
            ELSE IF NeedsRefresh(mem, DateNow)
                 THEN IF CanRefresh(mem)
                      THEN IF signOk
                           THEN [rec EXCEPT !.pc = "refresh", !.nRefresh = 1,
                                            !.rt = mem.refreshToken]
                           ELSE Failed(rec, "DPopProofError")
                      ELSE Failed(rec, TokenMissingErrorKind)
                 ELSE send(mem.accessToken))
  /\ event' = NoEvent
  /\ UNCHANGED << clock, mem, store, ctor, floating >>

(* a failed refresh swallowed: the request goes out with the old token *)
RefreshResponse_swallowed(t) ==
  /\ ~Returning
  /\ tasks[t].pc = "refresh"
  /\ \E r \in Responses :
       LET rec == tasks[t] IN
       IF r.ok
       THEN /\ StoreTokens(r.body)
            /\ event' = Received(t, r, StoreTokensLost(r.body))
            /\ tasks' = [tasks EXCEPT ![t] =
                 [rec EXCEPT !.pc = "resource",
                             !.nResource = rec.nResource + 1,
                             !.hdr = RefreshedToken(mem, mem')]]
       ELSE /\ tasks' = [tasks EXCEPT ![t] =
                 [rec EXCEPT !.pc = "resource",
                             !.nResource = rec.nResource + 1,
                             !.hdr = mem.accessToken]]
            /\ event' = Received(t, r, "none")
            /\ UNCHANGED << mem, floating >>
  /\ UNCHANGED << clock, store, ctor, loggedOut, calls >>

(* the token endpoint answers the refresh; on success storeTokens runs and
   makeAuthenticatedRequest goes on to the resource request *)
RefreshResponse(t) ==
  /\ ~Returning
  /\ tasks[t].pc = "refresh"
  /\ \E r \in Responses, signOk \in BOOLEAN :
       LET rec == tasks[t] IN
       IF r.ok
       THEN /\ StoreTokens(r.body)
            /\ event' = Received(t, r, StoreTokensLost(r.body))
            /\ tasks' = [tasks EXCEPT ![t] =
                 IF signOk
                 THEN [rec EXCEPT !.pc = "resource",
                                  !.nResource = rec.nResource + 1,
                                  !.hdr = RefreshedToken(mem, mem')]
                 ELSE Failed(rec, "DPopProofError")]
       ELSE /\ tasks' = [tasks EXCEPT
                           ![t] = Failed(rec, RefreshErrorKind)]
            /\ event' = Received(t, r, "none")
            /\ UNCHANGED << mem, floating >>
  /\ UNCHANGED << clock, store, ctor, loggedOut, calls >>

ResourceResponse(t) ==
  /\ ~Returning
  /\ tasks[t].pc = "resource"
  /\ \E ok \in BOOLEAN :
       tasks' = [tasks EXCEPT
                   ![t] = IF ok THEN Returned(tasks[t], ProfileData)
                          ELSE Failed(tasks[t], "OAuthServerError")]
  /\ event' = NoEvent
  /\ UNCHANGED << clock, mem, store, ctor, floating, loggedOut, calls >>

(* ------------------------------------------------------------------ *)
(* logout                                                              *)
(* ------------------------------------------------------------------ *)
LogoutStart(t) ==
  /\ CanStart(t)
  /\ Started(t, [IdleTask EXCEPT
                   !.op = "logout", !.pc = "delete",
                   !.quiet = IF ~NothingInFlight THEN "no"
                             ELSE IF mem = NoTokens /\ store = Absent
                                  THEN "empty" ELSE "record"])
  /\ event' = NoEvent
  /\ UNCHANGED << clock, mem, store, ctor, floating >>

(* the storage error wrapped the way the constructor's catch wraps it *)
LogoutError_wrapped(e) == "OAuthTokenError"

(* no try/catch around the await: what deleteTokens throws, logout throws *)
LogoutError(e) == e

(* await this.storage.deleteTokens(this.userId): the entry goes, or the
   call fails and logout throws *)
DeleteTokensSettles(t) ==
  /\ ~Returning
  /\ tasks[t].pc = "delete"
  /\ \E ok \in BOOLEAN :
       /\ store' = IF ok THEN Absent ELSE store
       /\ tasks' = [tasks EXCEPT
                      ![t] = IF ok THEN [tasks[t] EXCEPT !.pc = "deleted"]
                             ELSE Failed(tasks[t], LogoutError("StorageError"))]
  /\ event' = NoEvent
  /\ UNCHANGED << clock, mem, ctor, floating, loggedOut, calls >>

(* the fields left as they are *)
LogoutMem_keep(m) == m

(* this.accessToken = null; this.refreshToken = null;
   this.tokenExpiresAt = null *)
LogoutMem(m) == NoTokens

LogoutReturns(t) ==
  /\ ~Returning
  /\ tasks[t].pc = "deleted"
  /\ mem' = LogoutMem(mem)
  /\ tasks' = [u \in TaskIds |->
                IF u = t THEN Returned(tasks[t], JsUndefined)
                ELSE IF Running(u) THEN [tasks[u] EXCEPT !.overtaken = TRUE]
                ELSE tasks[u]]
  /\ loggedOut' = (tasks[t].quiet # "no")
  /\ event' = NoEvent
  /\ UNCHANGED << clock, store, ctor, floating, calls >>

Next ==
  \/ Tick /\ UNCHANGED gateVars
  \/ CtorLoadReads /\ UNCHANGED gateVars
  \/ CtorLoadFails /\ UNCHANGED gateVars
  \/ CtorLoadReturns /\ UNCHANGED gateVars
  \/ SaveTokensSettles /\ UNCHANGED gateVars
  \/ \E t \in TaskIds : HandleCallbackStart(t) /\ UNCHANGED gateVars
  \/ \E t \in TaskIds : HandleCallbackResponse(t) /\ UNCHANGED gateVars
  \/ \E t \in TaskIds : StatelessCallbackResponse(t) /\ UNCHANGED gateVars
  \/ \E t \in TaskIds : MakeRequestStart(t) /\ UNCHANGED gateVars
  \/ \E t \in TaskIds : RefreshResponse(t) /\ UNCHANGED gateVars
  \/ \E t \in TaskIds : ResourceResponse(t) /\ UNCHANGED gateVars
  \/ \E t \in TaskIds : LogoutStart(t) /\ UNCHANGED gateVars
  \/ \E t \in TaskIds : DeleteTokensSettles(t) /\ UNCHANGED gateVars
  \/ \E t \in TaskIds : LogoutReturns(t) /\ UNCHANGED gateVars
  \/ \E t \in TaskIds : Retire(t) /\ UNCHANGED gateVars

Spec == Init /\ [][Next]_vars

(* ------------------------------------------------------------------ *)
(* checkRateLimit, in memory                                           *)
(* ------------------------------------------------------------------ *)
(* a member of Object.prototype: an object with neither count nor
   firstRequest *)
ProtoMember == [count |-> None, firstRequest |-> None]

(* rateLimitStore[key]: the own property or, for want of one, the
   inherited one *)
Lookup(s, key) ==
  IF s[key] # Absent THEN s[key]
  ELSE IF key \in InheritedKeys THEN << ProtoMember >>
  ELSE Absent

(* arithmetic and comparison of numbers that may be undefined: the
   difference is NaN (None) and every comparison with NaN is false *)
Minus(a, b) == IF a = None \/ b = None THEN None ELSE Some(a[1] - b[1])
Greater(a, b) == a # None /\ b # None /\ a[1] > b[1]
Less(a, b) == a # None /\ b # None /\ a[1] < b[1]

FirstEntry(now) == << [count |-> Some(1), firstRequest |-> Some(now)] >>

(* the store after the call and the value returned *)
checkRateLimit(s, key, opts, now) ==
  LET found == Lookup(s, key) IN
  IF found = Absent
  THEN [store |-> [s EXCEPT ![key] = FirstEntry(now)], result |-> TRUE]
  ELSE LET entry == found[1]
           elapsedTime == Minus(Some(now), entry.firstRequest)
       IN IF Greater(elapsedTime, Some(opts.windowMs))
          THEN [store |-> [s EXCEPT ![key] = FirstEntry(now)],
                result |-> TRUE]
          ELSE IF Less(entry.count, Some(opts.maxRequests))
          THEN [store |->
                  [s EXCEPT ![key] =
                     << [entry EXCEPT !.count = Some(entry.count[1] + 1)] >>],
                result |-> TRUE]
          ELSE [store |-> s, result |-> FALSE]

(* ------------------------------------------------------------------ *)
(* checkRateLimit on Redis                                             *)
(* ------------------------------------------------------------------ *)
(* a key is there until the time of its expiry has passed *)
RedisLive(r, key, now) ==
  r[key] # Absent /\ ~Greater(Some(now), r[key][1].expireAt)

(* redis.incr(key): a missing key counts as 0 and gets no expiry *)
Incr(r, key, now) ==
  IF RedisLive(r, key, now)
  THEN << [r[key][1] EXCEPT !.value = @ + 1] >>
  ELSE << [value |-> 1, expireAt |-> None] >>

(* redis.pexpire(key, ms) *)
Pexpire(r, key, ms, now) ==
  IF RedisLive(r, key, now)
  THEN << [r[key][1] EXCEPT !.expireAt = Some(now + ms)] >>
  ELSE Absent

(* one request more than the limit is let through *)
UnderLimit_offByOne(current, opts) == current <= opts.maxRequests + 1

(* return current <= options.maxRequests *)
UnderLimit(current, opts) == current <= opts.maxRequests

(* ------------------------------------------------------------------ *)
(* The calls of the limiters                                           *)
(* ------------------------------------------------------------------ *)
(* the fixed window of a key: the first request starts it, a request that
   arrives after windowMs have elapsed since its start starts it anew *)
WindowAfter(w, opts, now) ==
  IF w.start = None \/ now - w.start[1] > opts.windowMs
  THEN [start |-> Some(now), n |-> 1]
  ELSE [w EXCEPT !.n = @ + 1]

LimitTick ==
  /\ clock < MaxLimitClock
  /\ clock' = clock + 1
  /\ last' = NoCall
  /\ UNCHANGED << options, rateLimitStore, redis, pexpire, auth, window,
                  admitted >>
  /\ UNCHANGED besideLimitVars

(* a caller passes the same key and options to both limiters at the same
   instant. The in-memory function returns at once; the Redis function has
   its INCR answered and, when the answer is 1, goes on to PEXPIRE. No
   limiter relates one key to another: a behaviour keeps to one key *)
CallCheckRateLimit(key) ==
  /\ \A other \in LimitKeys \ {key} : window[other].start = None
  /\ window[key].n < MaxLimitCalls
  /\ RedisLive(redis, key, DateNow) => redis[key][1].value < MaxLimitCalls
  /\ LET m == checkRateLimit(rateLimitStore, key, options, DateNow)
         incremented == Incr(redis, key, DateNow)
         current == incremented[1].value
         w == WindowAfter(window[key], options, DateNow)
         opened == /\ m.store[key] # rateLimitStore[key]
                   /\ m.store[key][1].count = Some(1)
     IN /\ rateLimitStore' = m.store
        /\ redis' = [redis EXCEPT ![key] = incremented]
        /\ pexpire' = IF current = 1 THEN pexpire \cup {key} ELSE pexpire
        /\ window' = [window EXCEPT ![key] = w]
        /\ admitted' =
             [mem |-> [admitted.mem EXCEPT ![key] =
                         IF opened THEN 1
                         ELSE IF m.result THEN @ + 1 ELSE @],
              redis |-> [admitted.redis EXCEPT ![key] =
                           IF current = 1 THEN 0
                           ELSE IF UnderLimit(current, options) THEN @ + 1
                           ELSE @]]
        /\ last' = [key |-> key, nth |-> w.n,
                    renewed |-> window[key].start # None /\ w.n = 1,
                    mem |-> m.result,
                    redis |-> UnderLimit(current, options)]
  /\ UNCHANGED << clock, options, auth >>
  /\ UNCHANGED besideLimitVars

(* the PEXPIRE of the call that created the key is answered: the call
   returns current <= maxRequests, or PEXPIRE fails, the call throws and the
   key stays without expiry *)
PexpireSettles(key) ==
  /\ key \in pexpire
  /\ \E ok \in BOOLEAN :
       /\ redis' = IF ok
                   THEN [redis EXCEPT
                           ![key] = Pexpire(redis, key, options.windowMs,
                                            DateNow)]
                   ELSE redis
       /\ admitted' =
            IF ok /\ key \in LimitKeys /\ UnderLimit(1, options)
            THEN [admitted EXCEPT !.redis[key] = @ + 1]
            ELSE admitted
  /\ pexpire' = pexpire \ {key}
  /\ last' = NoCall
  /\ UNCHANGED << clock, options, rateLimitStore, auth, window >>
  /\ UNCHANGED besideLimitVars

(* ------------------------------------------------------------------ *)
(* getAuthorizationUrl and pushAuthorizationRequest                    *)
(* ------------------------------------------------------------------ *)
(* !underLimit, where underLimit is the promise checkRateLimit returned and
   not its value: a promise is truthy *)
NotUnderLimit(promised) == FALSE

(* the lookups the PAR endpoint's host may get *)
ParDns ==
  {DnsFail,
   [ok |-> TRUE, addresses |-> {V4(8, 8, 8, 8)}],
   [ok |-> TRUE, addresses |-> {V4(8, 8, 8, 8), V4(10, 0, 0, 0)}]}

(* what generateCodeVerifier may return to two calls *)
CodeVerifiers == {"verifier-1", "verifier-2"}

(* base64url(sha256(codeVerifier)): a function of the verifier alone, with
   different values for different verifiers *)
generateCodeChallenge(codeVerifier) ==
  CASE codeVerifier = "verifier-1" -> "S256-of-verifier-1"
    [] codeVerifier = "verifier-2" -> "S256-of-verifier-2"

(* the challenge of the first call kept and sent by every call *)
ParData_firstChallenge(a) ==
  [code_challenge |-> generateCodeChallenge("verifier-1"),
   code_challenge_method |-> "S256"]

(* the body of the PAR request, as far as PKCE goes *)
ParData(a) ==
  [code_challenge |-> a.codeChallenge[1], code_challenge_method |-> "S256"]

(* the stateless client calls the Redis checkRateLimit and does not await
   it (its INCR is on its way), the storage-backed client calls no limiter;
   both then make the PKCE pair and call pushAuthorizationRequest, which
   awaits isValidUrl(parEndpoint) *)
GetAuthorizationUrlStart(variant, userKey) ==
  /\ auth.pc = "idle"
  /\ auth.n < MaxAuthCalls
  /\ \E drawn \in CodeVerifiers :
     LET incremented == Incr(redis, userKey, DateNow)
         current == incremented[1].value
         call == [IdleAuth EXCEPT !.variant = variant, !.key = userKey,
                                  !.n = auth.n + 1]
         WithPkce(a) ==
           [a EXCEPT !.pc = "dns", !.pkce = TRUE,
                     !.codeVerifier = Some(drawn),
                     !.codeChallenge = Some(generateCodeChallenge(drawn))]
     IN IF variant = "stateless"
        THEN /\ redis' = [redis EXCEPT ![userKey] = incremented]
             /\ pexpire' = IF current = 1 THEN pexpire \cup {userKey}
                           ELSE pexpire
             /\ LET limited ==
                       [call EXCEPT
                          !.limit = IF UnderLimit(current, options)
                                    THEN "admitted" ELSE "denied"]
                IN auth' =
                     IF NotUnderLimit(UnderLimit(current, options))
                     THEN [limited EXCEPT
                             !.pc = "done", !.out = "err",
                             !.err = "RateLimitExceededError"]
                     ELSE WithPkce(limited)
        ELSE /\ auth' = WithPkce(call)
             /\ UNCHANGED << redis, pexpire >>
  /\ last' = NoCall
  /\ UNCHANGED << clock, options, rateLimitStore, window, admitted >>
  /\ UNCHANGED besideLimitVars

(* the POST goes out whatever isValidUrl answered *)
AuthUrlChecked_postsAnyway ==
  /\ auth.pc = "dns"
  /\ \E dns \in ParDns :
       /\ checked' = [url |-> ParEndpoint, dns |-> dns,
                      out |-> isValidUrl(ParEndpoint, dns), n |-> checked.n]
       /\ auth' = [auth EXCEPT !.pc = "par", !.par = @ + 1,
                               !.data = Some(ParData(auth))]
  /\ last' = NoCall
  /\ UNCHANGED << clock, options, rateLimitStore, redis, pexpire, window,
                  admitted >>
  /\ UNCHANGED << sessionVars, wireVars, pureVars >>

(* isValidUrl(parEndpoint) has returned: the PAR request goes out, or
   pushAuthorizationRequest throws *)
AuthUrlChecked ==
  /\ auth.pc = "dns"
  /\ \E dns \in ParDns :
       /\ checked' = [url |-> ParEndpoint, dns |-> dns,
                      out |-> isValidUrl(ParEndpoint, dns), n |-> checked.n]
       /\ auth' = IF isValidUrl(ParEndpoint, dns).result
                  THEN [auth EXCEPT !.pc = "par", !.par = @ + 1,
                                    !.data = Some(ParData(auth))]
                  ELSE [auth EXCEPT !.pc = "done", !.out = "err",
                                    !.err = "OAuthAuthorizationError"]
  /\ last' = NoCall
  /\ UNCHANGED << clock, options, rateLimitStore, redis, pexpire, window,
                  admitted >>
  /\ UNCHANGED << sessionVars, wireVars, pureVars >>

(* the code verifier kept in a field of the client and saved with the
   token record *)
AuthParResponse_keepsVerifier ==
  /\ auth.pc = "par"
  /\ \E ok \in BOOLEAN :
       auth' = IF ok THEN [auth EXCEPT !.pc = "done", !.out = "ok",
                                       !.returned = auth.codeVerifier]
               ELSE [auth EXCEPT !.pc = "done", !.out = "err",
                                 !.err = "OAuthServerError"]
  /\ last' = NoCall
  /\ floating' = floating \cup {mem}
  /\ UNCHANGED << clock, options, rateLimitStore, redis, pexpire, window,
                  admitted, mem, store, ctor, tasks, event, loggedOut, calls,
                  checked, wireVars, pureVars >>

(* the PAR endpoint answers: the authorization URL and the code verifier
   are returned, or OAuthServerError is thrown *)
AuthParResponse ==
  /\ auth.pc = "par"
  /\ \E ok \in BOOLEAN :
       auth' = IF ok THEN [auth EXCEPT !.pc = "done", !.out = "ok",
                                       !.returned = auth.codeVerifier]
               ELSE [auth EXCEPT !.pc = "done", !.out = "err",
                                 !.err = "OAuthServerError"]
  /\ last' = NoCall
  /\ UNCHANGED << clock, options, rateLimitStore, redis, pexpire, window,
                  admitted >>
  /\ UNCHANGED besideLimitVars

(* the caller has the outcome *)
AuthRetire ==
  /\ auth.pc = "done"
  /\ auth' = [IdleAuth EXCEPT !.n = auth.n]
  /\ last' = NoCall
  /\ UNCHANGED << clock, options, rateLimitStore, redis, pexpire, window,
                  admitted >>
  /\ UNCHANGED besideLimitVars

LimitInit ==
  /\ options \in Configs
  /\ LimitIdle
  /\ GateIdle
  /\ clock = 1
  /\ store = Absent
  /\ SessionIdle

LimitNext ==
  \/ LimitTick
  \/ \E key \in LimitKeys : CallCheckRateLimit(key)
  \/ \E key \in LimitKeys : PexpireSettles(key)

SpecLimit == LimitInit /\ [][LimitNext]_vars

AuthNext ==
  \/ LimitTick
  \/ \E variant \in {"stateless", "session"}, userKey \in AuthKeys :
       GetAuthorizationUrlStart(variant, userKey)
  \/ \E key \in AuthKeys : PexpireSettles(key)
  \/ AuthUrlChecked
  \/ AuthParResponse
  \/ AuthRetire

(* getAuthorizationUrl is called on a client whose constructor has loaded
   what the store held *)
AuthInit ==
  /\ options \in Configs
  /\ LimitIdle
  /\ GateIdle
  /\ clock = 1
  /\ store \in InitialStores
  /\ mem = LoadTokensMem(store)
  /\ ctor = [pc |-> "done", val |-> Absent]
  /\ tasks = [t \in TaskIds |-> IdleTask]
  /\ floating = {}
  /\ event = NoEvent
  /\ loggedOut = FALSE
  /\ calls = 0

SpecAuth == AuthInit /\ [][AuthNext]_vars

(* ------------------------------------------------------------------ *)
(* isValidUrl called by itself                                         *)
(* ------------------------------------------------------------------ *)
(* the function keeps no state: one call per behaviour covers it *)
IsValidUrlCall ==
  /\ checked.n = 0
  /\ \E url \in UrlInputs, dns \in DnsOutcomes :
       checked' = [url |-> url, dns |-> dns, out |-> isValidUrl(url, dns),
                   n |-> 1]
  /\ UNCHANGED << clock, sessionVars, limitVars, wireVars, pureVars >>

UrlInit ==
  /\ options = [maxRequests |-> 1, windowMs |-> MsPerSec]
  /\ LimitIdle
  /\ GateIdle
  /\ clock = 1
  /\ store = Absent
  /\ SessionIdle

UrlNext == IsValidUrlCall

SpecUrl == UrlInit /\ [][UrlNext]_vars

(* ------------------------------------------------------------------ *)
(* generateDpopProof and the requests of the calls, one call after     *)
(* the other                                                           *)
(* ------------------------------------------------------------------ *)
Methods == {"GET", "POST"}

(* the url a caller passes to makeAuthenticatedRequest *)
RequestUrls == {ProfileUrl, ProfileQueryUrl, MetadataUrl}

(* uuidv4(): the n-th value drawn, unlike the values drawn before it *)
uuidv4(n) == n

(* one jti made when the module is loaded and put into every proof *)
generateDpopProof_oneJti(method, url, n) ==
  [htu |-> url, htm |-> method, jti |-> uuidv4(0)]

(* the payload of the proof: { htu: url, htm: method, jti: uuidv4() } *)
generateDpopProof(method, url, n) ==
  [htu |-> url, htm |-> method, jti |-> uuidv4(n)]

(* a request with its DPoP header; validated: isValidUrl has returned true
   for its url in the call that sends it *)
Request(w, method, url, proof) ==
  [method |-> method, url |-> url, proof |-> proof,
   validated |-> url \in w.checkedUrls]

WireFailed(w, kind) == [IdleWire EXCEPT !.out = "err", !.err = kind]

WireReturned(w) == [IdleWire EXCEPT !.out = "ok"]

(* the call does not get as far as generateDpopProof *)
NotSigned(w) == [wire |-> w, sent |-> sent, jtis |-> jtis]

(* a failed signing tried once more, and the request sent with the second
   proof *)
Signed_retried(w, method, url, pc, signOk) ==
  [wire |-> [w EXCEPT !.pc = pc],
   sent |-> Append(sent,
              Request(w, method, url,
                      generateDpopProof(method, url,
                                        IF signOk THEN jtis + 1
                                        ELSE jtis + 2))),
   jtis |-> IF signOk THEN jtis + 1 ELSE jtis + 2]

(* await generateDpopProof(method, url, ...): a jti is drawn; the proof is
   signed and the request goes out with it, or signing fails and
   DPopProofError is thrown *)
Signed(w, method, url, pc, signOk) ==
  [wire |-> IF signOk THEN [w EXCEPT !.pc = pc]
            ELSE WireFailed(w, "DPopProofError"),
   sent |-> IF signOk
            THEN Append(sent,
                   Request(w, method, url,
                           generateDpopProof(method, url, jtis + 1)))
            ELSE sent,
   jtis |-> jtis + 1]

(* a call starts when the one before it has ended and two more proofs
   are within the bound *)
WireCanStart ==
  /\ wire.pc = "idle"
  /\ jtis + 2 <= MaxJtis

(* handleCallback of either client: the proof for (POST, tokenEndpoint),
   then the POST *)
WireCallbackStart(variant) ==
  /\ WireCanStart
  /\ \E signOk \in BOOLEAN :
       LET w == [IdleWire EXCEPT !.op = variant, !.method = "POST",
                                 !.url = TokenEndpoint]
           o == Signed(w, "POST", TokenEndpoint, "post", signOk)
       IN wire' = o.wire /\ sent' = o.sent /\ jtis' = o.jtis
  /\ event' = NoEvent
  /\ UNCHANGED << clock, mem, store, ctor, tasks, floating, loggedOut,
                  calls, limitVars, checked >>

WireCallbackResponse ==
  /\ wire.pc = "post"
  /\ \E r \in Responses :
       IF r.ok
       THEN /\ wire' = WireReturned(wire)
            /\ IF wire.op = "handleCallback"
               THEN /\ StoreTokens(r.body)
                    /\ event' = Lost(StoreTokensLost(r.body))
               ELSE /\ event' = NoEvent
                    /\ UNCHANGED << mem, floating >>
       ELSE /\ wire' = WireFailed(wire, ExchangeErrorKind)
            /\ event' = NoEvent
            /\ UNCHANGED << mem, floating >>
  /\ UNCHANGED << clock, store, ctor, tasks, loggedOut, calls, limitVars,
                  checked, sent, jtis >>

(* makeAuthenticatedRequest(method, url, accessToken): the token is the one
   passed or the session's, after a refresh when that one has expired; no
   isValidUrl call is made on the way *)
WireRequestStart(method, url) ==
  /\ WireCanStart
  /\ \E explicit \in BOOLEAN, signOk \in BOOLEAN :
       LET w == [IdleWire EXCEPT !.op = "makeAuthenticatedRequest",
                                 !.method = method, !.url = url]
           o == IF explicit
                THEN Signed([w EXCEPT !.token = ExplicitToken], method, url,
                            "resource", signOk)
                ELSE IF Falsy(mem.accessToken)
                THEN NotSigned(WireFailed(w, TokenMissingErrorKind))
                ELSE IF NeedsRefresh(mem, DateNow)
                THEN IF CanRefresh(mem)
                     THEN Signed(w, "POST", TokenEndpoint, "refresh", signOk)
                     ELSE NotSigned(WireFailed(w, TokenMissingErrorKind))
                ELSE Signed([w EXCEPT !.token = mem.accessToken], method,
                            url, "resource", signOk)
       IN wire' = o.wire /\ sent' = o.sent /\ jtis' = o.jtis
  /\ event' = NoEvent
  /\ UNCHANGED << clock, mem, store, ctor, tasks, floating, loggedOut,
                  calls, limitVars, checked >>

(* refreshAccessToken gets its answer; on success storeTokens runs and
   makeAuthenticatedRequest goes on with a proof for (method, url) *)
WireRefreshResponse ==
  /\ wire.pc = "refresh"
  /\ \E r \in Responses, signOk \in BOOLEAN :
       IF r.ok
       THEN /\ StoreTokens(r.body)
            /\ event' = Lost(StoreTokensLost(r.body))
            /\ LET w == [wire EXCEPT !.token = RefreshedToken(mem, mem')]
                   o == Signed(w, wire.method, wire.url, "resource", signOk)
               IN wire' = o.wire /\ sent' = o.sent /\ jtis' = o.jtis
       ELSE /\ wire' = WireFailed(wire, RefreshErrorKind)
            /\ event' = NoEvent
            /\ UNCHANGED << mem, floating, sent, jtis >>
  /\ UNCHANGED << clock, store, ctor, tasks, loggedOut, calls, limitVars,
                  checked >>

(* a 401 answer makes the call refresh and send the request again *)
WireResourceResponse_retry ==
  /\ wire.pc = "resource"
  /\ \E ok \in BOOLEAN :
       IF ok \/ jtis >= MaxJtis
       THEN /\ wire' = WireReturned(wire)
            /\ UNCHANGED << sent, jtis >>
       ELSE LET o == Signed(wire, wire.method, wire.url, "resource", TRUE)
            IN wire' = o.wire /\ sent' = o.sent /\ jtis' = o.jtis
  /\ event' = NoEvent
  /\ UNCHANGED << clock, mem, store, ctor, tasks, floating, loggedOut,
                  calls, limitVars, checked >>

WireResourceResponse ==
  /\ wire.pc = "resource"
  /\ \E ok \in BOOLEAN :
       wire' = IF ok THEN WireReturned(wire)
               ELSE WireFailed(wire, "OAuthServerError")
  /\ event' = NoEvent
  /\ UNCHANGED << clock, mem, store, ctor, tasks, floating, loggedOut,
                  calls, limitVars, checked, sent, jtis >>

(* the constructor's loadTokens has returned with what the store held *)
WireInit ==
  /\ options = [maxRequests |-> 1, windowMs |-> MsPerSec]
  /\ LimitIdle
  /\ GateIdle
  /\ clock = 1
  /\ store \in InitialStores
  /\ mem = LoadTokensMem(store)
  /\ ctor = [pc |-> "done", val |-> Absent]
  /\ tasks = [t \in TaskIds |-> IdleTask]
  /\ floating = {}
  /\ event = NoEvent
  /\ loggedOut = FALSE
  /\ calls = 0

WireNext ==
  \/ \E variant \in {"handleCallback", "statelessCallback"} :
       WireCallbackStart(variant) /\ UNCHANGED pureVars
  \/ WireCallbackResponse /\ UNCHANGED pureVars
  \/ \E method \in Methods, url \in RequestUrls :
       WireRequestStart(method, url) /\ UNCHANGED pureVars
  \/ WireRefreshResponse /\ UNCHANGED pureVars
  \/ WireResourceResponse /\ UNCHANGED pureVars
  \/ SaveTokensSettles /\ UNCHANGED gateVars

SpecWire == WireInit /\ [][WireNext]_vars

(* ------------------------------------------------------------------ *)
(* The constructor and the functions that keep no state, each called    *)
(* once on an input of its domain                                       *)
(* ------------------------------------------------------------------ *)
ClientVariants == {"session", "stateless"}

(* what a caller may pass for each option; a string option may be left
   out or empty, scopes may be left out, empty or given *)
CtorOptions ==
  [clientId : {Undef, "", "https://yourapp.com/oauth/client-metadata.json"},
   redirectUri : {Undef, "", "https://yourapp.com/oauth/callback"},
   scopes : {None, Some(<< >>), Some(<< "atproto" >>)},
   jwkPrivate : {Undef, "privateKey"},
   jwkPublic : {Undef, "publicKey"},
   userId : {Undef, "user1"},
   storage : {Undef, "storage"}]

(* the storage-backed constructor with its last check left out *)
CtorChecks_noStorage(variant) ==
  << "clientId", "redirectUri", "jwkPrivate", "jwkPublic" >>

(* the if (!options.x) throw new OAuthClientError(...) lines, in order *)
CtorChecks(variant) ==
  IF variant = "session"
  THEN << "clientId", "redirectUri", "jwkPrivate", "jwkPublic", "storage" >>
  ELSE << "clientId", "redirectUri", "jwkPrivate", "jwkPublic" >>

(* options.scopes || ['openid', 'profile']: an empty array is truthy *)
DefaultScopes == << "openid", "profile" >>

ScopesOf(o) == IF o.scopes = None THEN DefaultScopes ELSE o.scopes[1]

(* the fields the constructor assigns *)
ClientOf(variant, o) ==
  IF variant = "session"
  THEN [clientId |-> o.clientId, redirectUri |-> o.redirectUri,
        scopes |-> ScopesOf(o), jwkPrivate |-> o.jwkPrivate,
        jwkPublic |-> o.jwkPublic, userId |-> o.userId,
        storage |-> o.storage]
  ELSE [clientId |-> o.clientId, redirectUri |-> o.redirectUri,
        scopes |-> ScopesOf(o), jwkPrivate |-> o.jwkPrivate,
        jwkPublic |-> o.jwkPublic, userId |-> Undef, storage |-> Undef]

(* new BlueskyOAuthClient(o): the first check that fails throws; otherwise
   the fields are assigned and the storage-backed client calls loadTokens *)
Construct(variant, o) ==
  IF \E i \in DOMAIN CtorChecks(variant) : Falsy(o[CtorChecks(variant)[i]])
  THEN [threw |-> "OAuthClientError", client |-> None, loads |-> 0]
  ELSE [threw |-> "none", client |-> Some(ClientOf(variant, o)),
        loads |-> IF variant = "session" THEN 1 ELSE 0]

ConstructCall ==
  /\ made.n = 0
  /\ \E variant \in ClientVariants, o \in CtorOptions :
       LET c == Construct(variant, o) IN
       made' = [n |-> 1, variant |-> variant, options |-> Some(o),
                threw |-> c.threw, client |-> c.client, loads |-> c.loads]
  /\ UNCHANGED << verifier, escaped, csrf >>
  /\ UNCHANGED besidePureVars

PureInit ==
  /\ options = [maxRequests |-> 1, windowMs |-> MsPerSec]
  /\ LimitIdle
  /\ GateIdle
  /\ clock = 1
  /\ store = Absent
  /\ SessionIdle

SpecCtor == PureInit /\ [][ConstructCall]_vars

(* ------------------------------------------------------------------ *)
(* generateCodeVerifier                                                 *)
(* ------------------------------------------------------------------ *)
(* crypto.randomBytes(32) *)
RandomBytesLen == 32

(* byte values the draws are made of: all bits clear, all set, and values
   whose six-bit groups reach both ends of the encoding alphabets *)
ByteSamples == {0, 1, 127, 251, 255}

(* the buffers crypto.randomBytes may return: three sampled bytes repeated
   to the length asked for *)
RandomBuffers ==
  {[i \in 1 .. RandomBytesLen |-> triple[((i - 1) % 3) + 1]] :
     triple \in [1 .. 3 -> ByteSamples]}

(* crypto.randomBytes returns a buffer or throws *)
RandomBytesOutcomes == {Some(b) : b \in RandomBuffers} \cup {None}

HexDigits ==
  << "0", "1", "2", "3", "4", "5", "6", "7", "8", "9", "a", "b", "c", "d",
     "e", "f" >>

(* buffer.toString('hex'): two digits per byte, high nibble first *)
ToHex(bytes) ==
  [i \in 1 .. 2 * Len(bytes) |->
     IF i % 2 = 1 THEN HexDigits[(bytes[(i + 1) \div 2] \div 16) + 1]
     ELSE HexDigits[(bytes[i \div 2] % 16) + 1]]

(* the alphabet of 'base64', with + and / *)
Base64UrlAlphabet_plain ==
  << "A", "B", "C", "D", "E", "F", "G", "H", "I", "J", "K", "L", "M", "N",
     "O", "P", "Q", "R", "S", "T", "U", "V", "W", "X", "Y", "Z", "a", "b",
     "c", "d", "e", "f", "g", "h", "i", "j", "k", "l", "m", "n", "o", "p",
     "q", "r", "s", "t", "u", "v", "w", "x", "y", "z", "0", "1", "2", "3",
     "4", "5", "6", "7", "8", "9", "+", "/" >>

(* the alphabet of 'base64url' *)
Base64UrlAlphabet ==
  << "A", "B", "C", "D", "E", "F", "G", "H", "I", "J", "K", "L", "M", "N",
     "O", "P", "Q", "R", "S", "T", "U", "V", "W", "X", "Y", "Z", "a", "b",
     "c", "d", "e", "f", "g", "h", "i", "j", "k", "l", "m", "n", "o", "p",
     "q", "r", "s", "t", "u", "v", "w", "x", "y", "z", "0", "1", "2", "3",
     "4", "5", "6", "7", "8", "9", "-", "_" >>

(* the six-bit groups of the bytes, the last group filled with zero bits *)
RECURSIVE Sextets(_)
Sextets(bytes) ==
  IF Len(bytes) = 0 THEN << >>
  ELSE IF Len(bytes) = 1
  THEN << bytes[1] \div 4, (bytes[1] % 4) * 16 >>
  ELSE IF Len(bytes) = 2
  THEN << bytes[1] \div 4,
          (bytes[1] % 4) * 16 + bytes[2] \div 16,
          (bytes[2] % 16) * 4 >>
  ELSE << bytes[1] \div 4,
          (bytes[1] % 4) * 16 + bytes[2] \div 16,
          (bytes[2] % 16) * 4 + bytes[3] \div 64,
          bytes[3] % 64 >>
       \o Sextets(SubSeq(bytes, 4, Len(bytes)))

(* buffer.toString('base64url'): no padding *)
ToBase64Url(bytes) ==
  [i \in 1 .. Len(Sextets(bytes)) |->
     Base64UrlAlphabet[Sextets(bytes)[i] + 1]]

(* str.slice(from, to) for 0 <= from <= to *)
Slice(str, from, to) ==
  SubSeq(str, from + 1, IF to < Len(str) THEN to ELSE Len(str))

VerifierVariants == {"hex", "base64url"}

(* the two generateCodeVerifier of pkce.ts: the first lets the error of
   randomBytes through, the second wraps it in an Error *)
generateCodeVerifier(variant, random) ==
  IF random = None
  THEN [out |-> None, threw |-> "Error"]
  ELSE IF variant = "hex"
  THEN [out |-> Some(ToHex(random[1])), threw |-> "none"]
  ELSE [out |-> Some(Slice(ToBase64Url(random[1]), 0, 128)),
        threw |-> "none"]

GenerateCodeVerifierCall ==
  /\ verifier.n = 0
  /\ \E variant \in VerifierVariants, random \in RandomBytesOutcomes :
       LET g == generateCodeVerifier(variant, random) IN
       verifier' = [n |-> 1, variant |-> variant, bytes |-> random,
                    out |-> g.out, threw |-> g.threw]
  /\ UNCHANGED << made, escaped, csrf >>
  /\ UNCHANGED besidePureVars

SpecPkce == PureInit /\ [][GenerateCodeVerifierCall]_vars

(* ------------------------------------------------------------------ *)
(* sanitizeString                                                       *)
(* ------------------------------------------------------------------ *)
(* the characters of the inputs: the five the function is about, and
   characters of the entities themselves *)
InputChars == {"<", ">", "&", "'", "\"", "a", "#", ";"}

(* the strings of up to n characters *)
RECURSIVE StringsUpTo(_, _)
StringsUpTo(chars, n) ==
  IF n = 0 THEN {<< >>}
  ELSE StringsUpTo(chars, n - 1)
       \cup {Append(str, c) :
               str \in {x \in StringsUpTo(chars, n - 1) : Len(x) = n - 1},
               c \in chars}

InputStrings == StringsUpTo(InputChars, MaxInputLen)

(* the character class without the ampersand *)
RegexClass_noAmp == {"<", ">", "'", "\""}

(* /[<>&'"]/g *)
RegexClass == {"<", ">", "&", "'", "\""}

(* escapeMap[char], undefined for a character that is no key *)
escapeMap(char) ==
  CASE char = "<" -> Some(<< "&", "l", "t", ";" >>)
    [] char = ">" -> Some(<< "&", "g", "t", ";" >>)
    [] char = "&" -> Some(<< "&", "a", "m", "p", ";" >>)
    [] char = "'" -> Some(<< "&", "#", "3", "9", ";" >>)
    [] char = "\"" -> Some(<< "&", "q", "u", "o", "t", ";" >>)
    [] OTHER -> None

(* the callback of replace: escapeMap[char] || char *)
Replacement(char) ==
  IF escapeMap(char) # None THEN escapeMap(char)[1] ELSE << char >>

(* input.replace(/[<>&'"]/g, callback): every match, left to right *)
RECURSIVE sanitizeString(_)
sanitizeString(input) ==
  IF Len(input) = 0 THEN << >>
  ELSE (IF Head(input) \in RegexClass THEN Replacement(Head(input))
        ELSE << Head(input) >>)
       \o sanitizeString(Tail(input))

SanitizeStringCall ==
  /\ escaped.n = 0
  /\ \E input \in InputStrings :
       escaped' = [n |-> 1, input |-> input, out |-> sanitizeString(input)]
  /\ UNCHANGED << made, verifier, csrf >>
  /\ UNCHANGED besidePureVars

SpecSanitize == PureInit /\ [][SanitizeStringCall]_vars

(* ------------------------------------------------------------------ *)
(* verifyCsrfToken                                                      *)
(* ------------------------------------------------------------------ *)
(* characters of a token: two of one byte, one of two bytes, U+FFFD and a
   lone surrogate *)
TokenChars == {"a", "b", "e-acute", "U+FFFD", "U+D800"}

Tokens == StringsUpTo(TokenChars, MaxTokenLen)

(* the UTF-8 bytes of a character; a lone surrogate is written as U+FFFD *)
Utf8(char) ==
  CASE char = "a" -> << 97 >>
    [] char = "b" -> << 98 >>
    [] char = "e-acute" -> << 195, 169 >>
    [] char = "U+FFFD" -> << 239, 191, 189 >>
    [] char = "U+D800" -> << 239, 191, 189 >>

(* Buffer.from(str): the UTF-8 bytes of the string *)
RECURSIVE BufferFrom(_)
BufferFrom(str) ==
  IF Len(str) = 0 THEN << >>
  ELSE Utf8(Head(str)) \o BufferFrom(Tail(str))

(* crypto.timingSafeEqual(a, b): a RangeError for buffers of different byte
   lengths, otherwise whether the bytes are the same *)
timingSafeEqual(a, b) ==
  IF Len(a) # Len(b) THEN [threw |-> TRUE, result |-> FALSE]
  ELSE [threw |-> FALSE, result |-> a = b]

verifyCsrfToken(token, sessionToken) ==
  timingSafeEqual(BufferFrom(token), BufferFrom(sessionToken))

VerifyCsrfTokenCall ==
  /\ csrf.n = 0
  /\ \E token \in Tokens, sessionToken \in Tokens :
       LET v == verifyCsrfToken(token, sessionToken) IN
       csrf' = [n |-> 1, token |-> token, sessionToken |-> sessionToken,
                threw |-> v.threw, result |-> v.result]
  /\ UNCHANGED << made, verifier, escaped >>
  /\ UNCHANGED besidePureVars

SpecCsrf == PureInit /\ [][VerifyCsrfTokenCall]_vars

(* ------------------------------------------------------------------ *)
(* Properties                                                          *)
(* ------------------------------------------------------------------ *)
IsRequest(t) == tasks[t].op = "makeAuthenticatedRequest"

(* C1: a resource request that carries the session's token is sent only if
   the token was not at or past tokenExpiresAt when makeAuthenticatedRequest
   checked it, or after this call has sent a refresh request that the token
   endpoint answered with success. *)
C1_NoExpiredTokenWithoutRefresh ==
  \A t \in TaskIds :
    (IsRequest(t) /\ ~tasks[t].explicit /\ tasks[t].expired
       /\ tasks[t].nResource > 0)
    => /\ tasks[t].nRefresh = 1
       /\ (event.task = t /\ tasks[t].pc = "resource" => event.resp.ok)

(* the refresh has been answered and the resource request is on its way
   with the session's token *)
C1_Witness ==
  \E t \in TaskIds :
    /\ IsRequest(t) /\ ~tasks[t].explicit /\ tasks[t].expired
    /\ tasks[t].pc = "resource" /\ event.task = t

(* C2: a makeAuthenticatedRequest without explicit token that finds the
   session's token expired and a refresh token present sends exactly one
   refresh request (it does not give up with OAuthTokenError), sends no
   resource request before the refresh is answered, and the resource request
   it then sends carries the access_token of the refresh response. *)
C2_OneRefreshThenNewToken ==
  \A t \in TaskIds :
    (IsRequest(t) /\ ~tasks[t].explicit /\ tasks[t].expired)
    => /\ tasks[t].nRefresh <= 1
       /\ tasks[t].nResource <= 1
       /\ (tasks[t].pc = "refresh"
             => tasks[t].nRefresh = 1 /\ tasks[t].nResource = 0)
       /\ (tasks[t].nResource = 1 => tasks[t].nRefresh = 1)
       /\ (tasks[t].pc = "done" /\ tasks[t].err = "OAuthTokenError"
             /\ ~Falsy(mem.accessToken)
             => mem.refreshToken = Null)
       /\ (tasks[t].pc = "resource" /\ event.task = t
             /\ ~event.resp.body.isNull
             => tasks[t].hdr = event.resp.body.access_token)

(* the stored token was "AT1", the refresh returned "AT2" and the resource
   request carries "AT2" *)
C2_Witness ==
  \E t \in TaskIds :
    /\ IsRequest(t) /\ ~tasks[t].explicit /\ tasks[t].expired
    /\ tasks[t].pc = "resource" /\ event.task = t
    /\ event.resp.body.access_token = "AT2"
    /\ tasks[t].hdr = "AT2"
    /\ tasks[t].nRefresh = 1 /\ tasks[t].nResource = 1
    /\ calls = 1

(* C3: with an access token at or past its expiry and no refresh token,
   makeAuthenticatedRequest without explicit token throws OAuthTokenError,
   sends neither a refresh nor a resource request and changes neither the
   fields nor the store. *)
C3_NoRefreshTokenNoRequest ==
  [][\A t \in TaskIds :
       ( /\ tasks[t].pc = "idle"
         /\ tasks'[t].op = "makeAuthenticatedRequest"
         /\ ~tasks'[t].explicit
         /\ ~Falsy(mem.accessToken)
         /\ PastExpiry(mem, DateNow)
         /\ mem.refreshToken = Null )
       => /\ tasks'[t].pc = "done"
          /\ tasks'[t].err = "OAuthTokenError"
          /\ tasks'[t].nRefresh = 0
          /\ tasks'[t].nResource = 0
          /\ mem' = mem /\ store' = store /\ floating' = floating]_vars

C3_Witness ==
  \E t \in TaskIds :
    /\ IsRequest(t) /\ ~tasks[t].explicit /\ tasks[t].expired
    /\ tasks[t].pc = "done" /\ tasks[t].err = "OAuthTokenError"
    /\ ~Falsy(mem.accessToken) /\ mem.refreshToken = Null

(* the token endpoint did not answer with a token response *)
BadResponse(r) == ~r.ok \/ r.body.isNull \/ Falsy(r.body.access_token)

(* the fields hold what the store holds: both empty, or the same record *)
MemMatchesStore ==
  \/ store = Absent /\ mem = NoTokens
  \/ store = << mem >>

(* C4: when handleCallback, refreshAccessToken or logout has returned with
   success, the in-memory fields equal the TokenStorage entry of userId
   (both empty after logout), and a failed saveTokens or deleteTokens has
   changed neither. *)
C4_WriteThrough ==
  \A t \in TaskIds :
    /\ (tasks[t].op = "handleCallback"
          /\ tasks[t].pc = "done" /\ tasks[t].out = "ok"
          /\ event.task = t /\ ~BadResponse(event.resp)
          => MemMatchesStore)
    /\ (tasks[t].op = "logout"
          /\ tasks[t].pc = "done" /\ tasks[t].out = "ok"
          => MemMatchesStore)
    /\ (IsRequest(t) /\ event.task = t /\ ~BadResponse(event.resp)
          => MemMatchesStore)

(* C5: when the token endpoint answers handleCallback with a failure or a
   malformed body, handleCallback throws OAuthTokenRequestError and the
   fields and the store entry are what they were. *)
C5_FailedExchangeKeepsRecord ==
  [][\A t \in TaskIds :
       ( /\ tasks[t].op = "handleCallback"
         /\ tasks[t].pc = "post"
         /\ tasks'[t].pc = "done"
         /\ BadResponse(event'.resp) )
       => /\ tasks'[t].err = "OAuthTokenRequestError"
          /\ mem' = mem /\ store' = store /\ floating' = floating]_vars

(* C6: after a successful token exchange tokenExpiresAt is
   Date.now() + expires_in * 1000 when the response has expires_in (0
   included) and null exactly when it has none; accessToken and refreshToken
   are those of the response. *)
C6_ExpiryFromExpiresIn ==
  \A t \in TaskIds :
    ( /\ tasks[t].op = "handleCallback"
      /\ tasks[t].pc = "done" /\ tasks[t].out = "ok"
      /\ event.task = t /\ ~BadResponse(event.resp) )
    => LET body == event.resp.body IN
       /\ mem.accessToken = body.access_token
       /\ mem.refreshToken =
            (IF body.refresh_token = Undef THEN Null ELSE body.refresh_token)
       /\ mem.tokenExpiresAt =
            (IF body.expires_in = None THEN None
             ELSE Some(DateNow + body.expires_in[1] * MsPerSec))

(* C7: a storage error of saveTokens, loadTokens or deleteTokens reaches the
   caller of the operation, unwrapped: no such error ends in a promise
   without handler, none is replaced by another kind. *)
C7_StorageErrorReachesCaller ==
  /\ event.lost \notin {"StorageError", "OAuthTokenError"}
  /\ \A t \in TaskIds :
       tasks[t].op = "logout" /\ tasks[t].out = "err"
       => tasks[t].err = "StorageError"

(* C8: once logout has returned with nothing else in flight, the store has
   no entry for userId and the three fields are null, and a
   makeAuthenticatedRequest without explicit token that follows throws
   OAuthTokenError and sends no request. *)
C8_LogoutThenAccess ==
  /\ (loggedOut => mem = NoTokens /\ store = Absent)
  /\ \A t \in TaskIds :
       (IsRequest(t) /\ tasks[t].afterLogout /\ ~tasks[t].explicit)
       => /\ tasks[t].pc = "done"
          /\ tasks[t].err = "OAuthTokenError"
          /\ tasks[t].nRefresh = 0 /\ tasks[t].nResource = 0
          /\ mem = NoTokens /\ store = Absent

C8_Witness ==
  \E t \in TaskIds :
    /\ IsRequest(t) /\ tasks[t].afterLogout /\ ~tasks[t].explicit
    /\ tasks[t].pc = "done"

(* C9 as stated: logout on a session with no token record raises no error
   and leaves the fields null and the store entry absent. *)
C9_LogoutNeverFails ==
  \A t \in TaskIds :
    (tasks[t].op = "logout" /\ tasks[t].quiet = "empty"
       /\ tasks[t].pc = "done")
    => /\ tasks[t].out = "ok"
       /\ mem = NoTokens /\ store = Absent

(* C9: logout on a session with no token record and nothing else in flight
   (a second logout right after a first included) fails only when
   deleteTokens fails, and then with that storage error; either way the
   fields are null and the store entry is absent afterwards, as after the
   first logout. *)
C9_LogoutIdempotent ==
  \A t \in TaskIds :
    (tasks[t].op = "logout" /\ tasks[t].quiet = "empty")
    => /\ mem = NoTokens /\ store = Absent
       /\ (tasks[t].pc = "done"
             => tasks[t].out = "ok" \/ tasks[t].err = "StorageError")

(* a second logout, started right after a first one had returned, returns *)
C9_Witness ==
  \E t \in TaskIds :
    /\ tasks[t].op = "logout" /\ tasks[t].afterLogout
    /\ tasks[t].quiet = "empty"
    /\ tasks[t].pc = "done" /\ tasks[t].out = "ok"

(* C10: on success handleCallback resolves with the token response it
   received, in the storage-backed client as in the stateless one. *)
C10_ReturnsTokenResponse ==
  \A t \in TaskIds :
    ( /\ tasks[t].op \in {"handleCallback", "statelessCallback"}
      /\ tasks[t].pc = "done" /\ tasks[t].out = "ok"
      /\ event.task = t /\ ~BadResponse(event.resp) )
    => tasks[t].val = event.resp.body

(* C11: a PAR request of getAuthorizationUrl is sent only when checkRateLimit
   has admitted the call, and a call the limiter denies throws
   RateLimitExceededError with no PKCE pair made and no PAR request sent. *)
C11_DeniedMeansNoPar ==
  /\ (auth.par > 0 => auth.limit = "admitted")
  /\ (auth.limit = "denied"
        => /\ auth.pc = "done"
           /\ auth.err = "RateLimitExceededError"
           /\ ~auth.pkce
           /\ auth.par = 0)

(* C12: a call of checkRateLimit is admitted when it is one of the first
   maxRequests calls of its key's window and denied when it is a later call
   of that window, by the in-memory limiter and by the Redis limiter. *)
C12_FirstMaxRequestsAdmitted ==
  last.key # Null
  => /\ last.mem = (last.nth <= options.maxRequests)
     /\ last.redis = (last.nth <= options.maxRequests)

(* C13: the count stored for a key is at most maxRequests as long as the
   time is within the key's window, in rateLimitStore and in Redis. *)
C13_StoredCountWithinLimit ==
  \A key \in LimitKeys :
    /\ (rateLimitStore[key] # Absent
          /\ DateNow <= rateLimitStore[key][1].firstRequest[1]
                           + options.windowMs
          => rateLimitStore[key][1].count[1] <= options.maxRequests)
    /\ (RedisLive(redis, key, DateNow)
          => redis[key][1].value <= options.maxRequests)

(* C14: whatever the order in which the steps of concurrent checkRateLimit
   calls for one key take place, at most maxRequests calls are admitted in
   one window of the key: no two calls are admitted on the same count. *)
C14_AtMostMaxRequestsAdmitted ==
  \A key \in LimitKeys :
    /\ admitted.mem[key] <= options.maxRequests
    /\ admitted.redis[key] <= options.maxRequests

(* with maxRequests = 2: the call that created the key still awaits its
   PEXPIRE, a second call has been admitted meanwhile and a third one is
   denied *)
C14_Witness ==
  \E key \in LimitKeys :
    /\ options.maxRequests = 2
    /\ key \in pexpire
    /\ admitted.redis[key] = 1
    /\ last.key = key /\ ~last.redis /\ ~last.mem

(* C15: a call that arrives after windowMs have elapsed since the start of
   its key's window is admitted by both limiters and leaves the key with a
   new window and the count 1, whatever happened between the steps of the
   calls before it. *)
C15_CallAfterWindowAdmitted ==
  last.renewed
  => /\ last.mem
     /\ last.redis
     /\ rateLimitStore[last.key] = FirstEntry(DateNow)
     /\ redis[last.key][1].value = 1

(* C16: for every call the in-memory limiter and the Redis limiter, given the
   same calls at the same instants, return the same decision. *)
C16_SameDecision ==
  last.key # Null => last.mem = last.redis

(* the ranges an admissible host must not resolve into: 10/8, 172.16/12,
   192.168/16, 127/8 and 0/8, and the IPv6 addresses that begin with fd or
   fe80 *)
InListedRange(addr) ==
  IF addr.family = 4
  THEN \/ addr.octets[1] \in {0, 10, 127}
       \/ addr.octets[1] = 172 /\ addr.octets[2] \in 16 .. 31
       \/ addr.octets[1] = 192 /\ addr.octets[2] = 168
  ELSE /\ Len(addr.head) >= 2
       /\ addr.head[1] = "f"
       /\ \/ addr.head[2] = "d"
          \/ /\ Len(addr.head) >= 4
             /\ addr.head[2] = "e" /\ addr.head[3] = "8" /\ addr.head[4] = "0"

(* scheme and host names compare without regard to case *)
Admissible(url, dns) ==
  /\ url.valid
  /\ LowerCase(url.scheme) = "https"
  /\ LowerCase(url.host) = "bsky.social"
  /\ dns.ok
  /\ \A addr \in dns.addresses : ~InListedRange(addr)

(* C18: isValidUrl(url) returns true exactly when the URL parses, its scheme
   is https, its host is in the allow-list, the DNS lookup succeeds and every
   address it yields is outside the listed ranges; for every other input it
   returns false, and it never throws. *)
C18_TrueIffAdmissible ==
  checked.n > 0
  => /\ ~checked.out.threw
     /\ checked.out.result = Admissible(checked.url, checked.dns)

(* an allow-listed https URL with a query, resolving to a public IPv4 and a
   public IPv6 address, has been found valid *)
C18_Witness ==
  /\ checked.n > 0
  /\ checked.url = ProfileQueryUrl
  /\ checked.dns.addresses = {V4(8, 8, 8, 8), V6(<< "2", "0", "0", "1" >>)}
  /\ checked.out = Returns(TRUE)

(* C17: every request sent to a url that is not a constant of the code (the
   url a caller passes to makeAuthenticatedRequest) is sent after isValidUrl
   has returned true for that url in the same call; nothing is sent to a url
   that was not validated. *)
C17_RequestsAreValidated ==
  \A i \in DOMAIN sent :
    sent[i].url # TokenEndpoint => sent[i].validated

(* C19: every request that bears a proof (token exchange, refresh, resource
   request, the same method and url again included) bears a proof made for
   it, whose jti is the one drawn for it and is the jti of no other proof of
   the session. *)
C19_JtiNeverReused ==
  /\ \A i \in DOMAIN sent : sent[i].proof.jti \in 1..jtis
  /\ \A i, j \in DOMAIN sent :
       i # j => sent[i].proof.jti # sent[j].proof.jti

(* a resource request, then the same method and url again behind a refresh *)
C19_Witness ==
  /\ Len(sent) = 3
  /\ sent[1].method = sent[3].method
  /\ sent[1].url = sent[3].url
  /\ sent[1].url = ProfileUrl
  /\ sent[2].url = TokenEndpoint
  /\ sent[2].method = "POST"

(* the url with query and fragment removed *)
WithoutQueryAndFragment(url) == [url EXCEPT !.query = "", !.fragment = ""]

(* C20: the proof attached to a request has htm equal to the method of the
   request and htu equal to the url of the request with query and fragment
   removed, for urls with a query string or a fragment too. *)
C20_HtmAndHtuOfRequest ==
  \A i \in DOMAIN sent :
    /\ sent[i].proof.htm = sent[i].method
    /\ sent[i].proof.htu = WithoutQueryAndFragment(sent[i].url)

(* C21: one call of makeAuthenticatedRequest sends at most one refresh
   request and, after it, at most one resource request: a call that waits for
   the refresh answer sends at most its resource request next, and the
   answer to the resource request, non-2xx included, ends the call with no
   further request and the token record as it was; a non-2xx answer reaches
   the caller as OAuthServerError. *)
C21_NoRetryAfterAnswer ==
  [][ /\ (wire.pc = "idle" /\ sent' # sent) =>
           /\ Len(sent') = Len(sent) + 1
           /\ wire'.pc \in {"post", "refresh", "resource"}
      /\ (wire.pc = "refresh" /\ wire' # wire) =>
           /\ wire'.pc \in {"resource", "idle"}
           /\ (sent' # sent =>
                 /\ wire'.pc = "resource"
                 /\ Len(sent') = Len(sent) + 1
                 /\ sent'[Len(sent')].url = wire.url
                 /\ sent'[Len(sent')].method = wire.method)
      /\ wire.pc = "resource" =>
           /\ sent' = sent
           /\ jtis' = jtis
           /\ wire' # wire =>
                /\ wire'.pc = "idle"
                /\ mem' = mem /\ store' = store /\ floating' = floating
                /\ (wire'.out = "err" => wire'.err = "OAuthServerError") ]_vars

(* a resource request with a token that has not expired got a non-2xx
   answer: the call has ended with OAuthServerError, one request sent *)
C21_Witness ==
  /\ wire.pc = "idle"
  /\ wire.err = "OAuthServerError"
  /\ ~Falsy(mem.accessToken)
  /\ ~NeedsRefresh(mem, DateNow)
  /\ Len(sent) = 2
  /\ sent[1].url = TokenEndpoint
  /\ sent[2].url = ProfileUrl

(* the token endpoint rejected the exchange of task t *)
ExchangeRejected(t) ==
  /\ tasks[t].op \in {"handleCallback", "statelessCallback"}
  /\ tasks[t].pc = "done" /\ tasks[t].out = "err"
  /\ tasks[t].err # "DPopProofError"

(* the token endpoint rejected the refresh of task t *)
RefreshRejected(t) ==
  /\ tasks[t].op = "makeAuthenticatedRequest"
  /\ tasks[t].pc = "done" /\ tasks[t].out = "err"
  /\ tasks[t].nRefresh = 1 /\ tasks[t].nResource = 0
  /\ tasks[t].err # "DPopProofError"

(* task t had no token to use *)
TokenWasMissing(t) ==
  /\ tasks[t].op = "makeAuthenticatedRequest"
  /\ tasks[t].pc = "done" /\ tasks[t].out = "err"
  /\ tasks[t].nRefresh = 0 /\ tasks[t].nResource = 0
  /\ tasks[t].err # "DPopProofError"

(* C22: a failed token exchange, a failed refresh and a missing token raise
   three different error kinds: the kind a call failed with is the kind of
   no other of the three failures. *)
C22_DistinctErrorKinds ==
  \A t \in TaskIds :
    /\ ExchangeRejected(t) =>
         tasks[t].err \notin {RefreshErrorKind, TokenMissingErrorKind}
    /\ RefreshRejected(t) =>
         tasks[t].err \notin {ExchangeErrorKind, TokenMissingErrorKind}
    /\ TokenWasMissing(t) =>
         tasks[t].err \notin {ExchangeErrorKind, RefreshErrorKind}

(* the inputs the variant requires that the options leave out or empty *)
MissingInputs(variant, o) ==
  {f \in {"clientId", "redirectUri", "jwkPrivate", "jwkPublic"}
          \cup (IF variant = "session" THEN {"storage"} ELSE {}) :
     o[f] \in {Undef, ""}}

(* C23: a construction with a required input missing fails with the
   configuration error, OAuthClientError, before any side effect: no client
   exists afterwards and loadTokens of the storage has not been called. *)
C23_MissingInputFailsCleanly ==
  (made.n > 0 /\ MissingInputs(made.variant, made.options[1]) # {})
  => /\ made.threw = "OAuthClientError"
     /\ made.client = None
     /\ made.loads = 0

(* the storage-backed client with everything but the storage given *)
C23_Witness ==
  /\ made.n > 0
  /\ made.variant = "session"
  /\ MissingInputs(made.variant, made.options[1]) = {"storage"}
  /\ made.threw = "OAuthClientError"
  /\ made.loads = 0

(* C24: a construction with exactly clientId, redirectUri, jwkPrivate and
   jwkPublic given, scopes and every other option left out, succeeds in
   every variant of the class and yields a client whose scopes are
   ['openid', 'profile']. *)
C24_FourOptionsSuffice ==
  (/\ made.n > 0
   /\ MissingInputs("stateless", made.options[1]) = {}
   /\ made.options[1].scopes = None
   /\ made.options[1].userId = Undef
   /\ made.options[1].storage = Undef)
  => /\ made.threw = "none"
     /\ made.client # None
     /\ made.client[1].scopes = << "openid", "profile" >>

(* C25: getAuthorizationUrl persists nothing: no step of it, whether the
   call goes on to succeed, fails or is never taken further, changes the
   token fields in memory or what the TokenStore holds, or calls a method of
   the TokenStore; the code verifier goes to the caller only. *)
C25_PendingPersistsNothing ==
  [][ auth' # auth =>
        /\ mem' = mem
        /\ store' = store
        /\ floating' = floating
        /\ ctor' = ctor ]_vars

(* the storage-backed client, with a record loaded, has returned the
   authorization url and the code verifier *)
C25_Witness ==
  /\ auth.pc = "done"
  /\ auth.out = "ok"
  /\ auth.variant = "session"
  /\ auth.pkce
  /\ store # Absent
  /\ mem = store[1]
  /\ floating = {}

(* the unreserved characters of RFC 7636: A-Z, a-z, 0-9, "-", ".", "_", "~" *)
PkceUnreserved ==
  {"A", "B", "C", "D", "E", "F", "G", "H", "I", "J", "K", "L", "M", "N",
     "O", "P", "Q", "R", "S", "T", "U", "V", "W", "X", "Y", "Z", "a", "b",
     "c", "d", "e", "f", "g", "h", "i", "j", "k", "l", "m", "n", "o", "p",
     "q", "r", "s", "t", "u", "v", "w", "x", "y", "z", "0", "1", "2", "3",
     "4", "5", "6", "7", "8", "9", "-", ".", "_", "~"}

(* C26: every string generateCodeVerifier returns, in either variant of the
   function, is 43 to 128 characters long and made of PKCE unreserved
   characters only. *)
C26_VerifierWellFormed ==
  (verifier.n > 0 /\ verifier.out # None)
  => /\ Len(verifier.out[1]) >= 43
     /\ Len(verifier.out[1]) <= 128
     /\ \A i \in DOMAIN verifier.out[1] :
          verifier.out[1][i] \in PkceUnreserved

(* the base64url variant on bytes whose six-bit groups are 62 and 63 *)
C26_Witness ==
  /\ verifier.n > 0
  /\ verifier.variant = "base64url"
  /\ verifier.out # None
  /\ Len(verifier.out[1]) = 43
  /\ verifier.out[1][1] = "-"
  /\ verifier.out[1][2] = "_"

(* the named HTML entity of each of the five characters *)
NamedEntity(char) ==
  CASE char = "<" -> << "&", "l", "t", ";" >>
    [] char = ">" -> << "&", "g", "t", ";" >>
    [] char = "&" -> << "&", "a", "m", "p", ";" >>
    [] char = "'" -> << "&", "a", "p", "o", "s", ";" >>
    [] char = "\"" -> << "&", "q", "u", "o", "t", ";" >>
    [] OTHER -> << char >>

(* the same, with the numeric reference of the apostrophe *)
EntityOrReference(char) ==
  IF char = "'" THEN << "&", "#", "3", "9", ";" >> ELSE NamedEntity(char)

RECURSIVE EachNamed(_)
EachNamed(str) ==
  IF Len(str) = 0 THEN << >>
  ELSE NamedEntity(Head(str)) \o EachNamed(Tail(str))

RECURSIVE EachEscaped(_)
EachEscaped(str) ==
  IF Len(str) = 0 THEN << >>
  ELSE EntityOrReference(Head(str)) \o EachEscaped(Tail(str))

NoRawMarkup(str) ==
  \A i \in DOMAIN str : str[i] \notin {"<", ">", "'", "\""}

(* C27: for every input, sanitizeString replaces each of the characters
   < > & ' " by its named HTML entity and leaves every other character as it
   is and where it is, so that the output has no raw < > ' or ". *)
C27_EachNamedEntity ==
  escaped.n > 0
  => /\ escaped.out = EachNamed(escaped.input)
     /\ NoRawMarkup(escaped.out)

(* C27 with the apostrophe replaced by the numeric reference &#39; in place
   of a named entity, all else as stated. *)
C27_EachEscaped ==
  escaped.n > 0
  => /\ escaped.out = EachEscaped(escaped.input)
     /\ NoRawMarkup(escaped.out)

(* an input with an apostrophe, an ampersand and a character left alone *)
C27_Witness ==
  /\ escaped.n > 0
  /\ escaped.input = << "'", "&", "a" >>
  /\ escaped.out =
       << "&", "#", "3", "9", ";", "&", "a", "m", "p", ";", "a" >>

(* C28: verifyCsrfToken(token, sessionToken) returns true exactly when the
   two tokens are equal, and for two tokens that differ, tokens of different
   lengths included, it returns false and does not throw. *)
C28_TrueIffEqual ==
  csrf.n > 0
  => /\ ~csrf.threw
     /\ csrf.result = (csrf.token = csrf.sessionToken)

(* task t gets the answer of its refresh request in this step: a success
   with a token response object as its body *)
RefreshSucceeds(t) ==
  /\ tasks[t].pc = "refresh"
  /\ tasks'[t].pc # "refresh"
  /\ event'.task = t
  /\ event'.resp.ok
  /\ ~event'.resp.body.isNull

(* C29: a successful refresh overwrites the whole token record from the
   response and merges in nothing of the old one: the access token is the
   one of the response, the refresh token is null when the response has
   none, tokenExpiresAt is null when the response has no expires_in; and
   that record is the one given to the TokenStore to write. *)
C29_RefreshOverwritesRecord ==
  [][ \A t \in TaskIds :
        RefreshSucceeds(t) =>
          /\ mem'.accessToken = event'.resp.body.access_token
          /\ (event'.resp.body.refresh_token = Undef
                => mem'.refreshToken = Null)
          /\ (~Falsy(event'.resp.body.refresh_token)
                => mem'.refreshToken = event'.resp.body.refresh_token)
          /\ (event'.resp.body.expires_in = None
                => mem'.tokenExpiresAt = None)
          /\ (store' = << mem' >> \/ mem' \in floating') ]_vars

(* a refresh of the record AT1/RT1 was answered without a refresh token: the
   session has AT2 and no refresh token, and that record is on its way to
   the store, which still holds the old one *)
C29_Witness ==
  \E t \in TaskIds :
    /\ tasks[t].nRefresh = 1
    /\ event.task = t
    /\ event.resp.ok
    /\ event.resp.body.refresh_token = Undef
    /\ event.resp.body.access_token = "AT2"
    /\ mem.accessToken = "AT2"
    /\ mem.refreshToken = Null
    /\ mem \in floating
    /\ store # Absent
    /\ store[1].refreshToken = "RT1"

(* C30: when the refresh request fails (non-2xx answer, network error,
   timeout of the transport), the token record in memory and in the
   TokenStore stays as it was, makeAuthenticatedRequest ends with the error
   of the refresh, and the call sends no resource request. *)
C30_FailedRefreshKeepsRecord ==
  [][ \A t \in TaskIds :
        ( /\ tasks[t].pc = "refresh"
          /\ event'.task = t
          /\ ~event'.resp.ok )
        => /\ mem' = mem
           /\ store' = store
           /\ floating' = floating
           /\ tasks'[t].pc = "done"
           /\ tasks'[t].out = "err"
           /\ tasks'[t].err = "OAuthTokenRequestError"
           /\ tasks'[t].nResource = 0 ]_vars

(* the refresh of the expired record AT1/RT1 was refused: the call has
   ended with the error, and fields and store hold the expired record *)
C30_Witness ==
  \E t \in TaskIds :
    /\ IsRequest(t)
    /\ tasks[t].pc = "done"
    /\ tasks[t].err = "OAuthTokenRequestError"
    /\ tasks[t].nRefresh = 1
    /\ tasks[t].nResource = 0
    /\ event.task = t
    /\ ~event.resp.ok
    /\ store # Absent
    /\ mem = store[1]
    /\ mem.accessToken = "AT1"
    /\ PastExpiry(mem, DateNow)

(* C31: each generateDpopProof call of handleCallback, refreshAccessToken
   and makeAuthenticatedRequest either gives the proof of the one request
   sent next, or fails: then the call ends with DPopProofError, the request
   is not sent, no second proof is made, and the failure changes nothing of
   the token record (when the failing proof is the one made after a refresh
   was answered, the record is the one that refresh stored). *)
C31_SigningFailureIsFatal ==
  [][ jtis' # jtis =>
        /\ jtis' = jtis + 1
        /\ \/ /\ Len(sent') = Len(sent) + 1
              /\ SubSeq(sent', 1, Len(sent)) = sent
              /\ sent'[Len(sent')].proof.jti = jtis'
              /\ wire'.pc \in {"post", "refresh", "resource"}
           \/ /\ sent' = sent
              /\ wire'.pc = "idle"
              /\ wire'.out = "err"
              /\ wire'.err = "DPopProofError"
              /\ store' = store
              /\ (wire.pc # "refresh" => mem' = mem /\ floating' = floating)
    ]_vars

(* the first proof of a session with a stored record could not be signed:
   nothing was sent and the record is the stored one *)
C31_Witness ==
  /\ wire.pc = "idle"
  /\ wire.err = "DPopProofError"
  /\ jtis = 1
  /\ sent = << >>
  /\ store # Absent
  /\ mem = store[1]
  /\ floating = {}

(* C32: a PAR request is posted only by the step in which isValidUrl
   accepted the PAR endpoint, and a call posts at most one; when isValidUrl
   rejects the endpoint the call ends with an error and nothing is posted;
   a failed POST ends the call with an OAuthServerError after exactly one
   PAR request, and no verifier or URL is returned *)
C32_ParValidatedThenPostedOnce ==
  [][ /\ auth'.par # auth.par /\ auth'.pc # "idle" /\ auth.pc # "idle" =>
           /\ auth.pc = "dns"
           /\ auth.par = 0 /\ auth'.par = 1
           /\ checked'.url = ParEndpoint
           /\ checked'.out.result
      /\ auth.pc = "dns" /\ auth'.pc # "dns" /\ ~checked'.out.result =>
           /\ auth'.pc = "done" /\ auth'.out = "err"
           /\ auth'.err = "OAuthAuthorizationError"
           /\ auth'.par = 0
           /\ auth'.returned = None
      /\ auth'.err = "OAuthServerError" =>
           /\ auth'.pc = "done" /\ auth'.out = "err"
           /\ auth'.par = 1
           /\ auth'.returned = None
    ]_vars

C32_Witness ==
  /\ auth.pc = "done" /\ auth.err = "OAuthServerError" /\ auth.par = 1
  /\ checked.url = ParEndpoint /\ checked.out.result

(* C33: when getAuthorizationUrl succeeds, the code_challenge in the PAR
   request of that call is generateCodeChallenge of the codeVerifier the
   same call returns, with method S256; the challenge is a function of the
   verifier alone *)
C33_ChallengeMatchesReturnedVerifier ==
  auth.out = "ok" =>
    /\ auth.returned # None
    /\ auth.data # None
    /\ auth.data[1].code_challenge = generateCodeChallenge(auth.returned[1])
    /\ auth.data[1].code_challenge_method = "S256"
    /\ \A v, w \in CodeVerifiers :
         v = w <=> generateCodeChallenge(v) = generateCodeChallenge(w)

C33_Witness ==
  /\ auth.out = "ok" /\ auth.n = 2
  /\ auth.returned = Some("verifier-2")
  /\ auth.data = Some(ParData(auth))

(* C34: the completion of the token load the constructor started does not
   replace fields that a handleCallback completed since construction has
   set: when the load returns and the fields hold a token record, they are
   left as they are *)
C34_CtorLoadKeepsNewerState ==
  [][ ctor.pc = "loaded" /\ ctor'.pc = "done" /\ ~Falsy(mem.accessToken) =>
        mem' = mem
    ]_vars

(* C35: the answer to a token exchange or refresh that was in flight when a
   logout returned changes neither the in-memory fields nor what is
   written to the TokenStorage *)
C35_LogoutIsFinal ==
  [][ \A t \in TaskIds :
        /\ tasks[t].overtaken
        /\ tasks[t].pc \in {"post", "refresh"}
        /\ tasks'[t].pc # tasks[t].pc
        => mem' = mem /\ floating' = floating
    ]_vars

(* C36: two refresh requests in flight at once never carry the same
   refresh token *)
C36_RefreshTokenSubmittedOnce ==
  \A t, u \in TaskIds :
    t # u /\ tasks[t].pc = "refresh" /\ tasks[u].pc = "refresh" =>
      tasks[t].rt # tasks[u].rt

(* the access tokens the token endpoint issues and the TokenStorage holds
   at construction *)
IssuedTokens ==
  ({b.access_token : b \in Bodies}
     \cup {d[1].accessToken : d \in InitialStores \ {Absent}}) \ {Undef}

(* C37: the token record is well formed in every state: without an access
   token there is no refresh token and no expiry, and the access token is
   null or a token that was issued or loaded, never undefined *)
C37_TokenRecordWellFormed ==
  /\ mem.accessToken = Null =>
       mem.refreshToken = Null /\ mem.tokenExpiresAt = None
  /\ mem.accessToken \in {Null} \cup IssuedTokens

(* octets on both sides of the sign bit and of a byte *)
OctetSamples == {0, 1, 127, 128, 255}

(* the address lies in 10/8, 172.16/12, 192.168/16, 127/8 or 0/8 *)
InPrivateBlock(o) ==
  \/ o[1] \in {10, 127, 0}
  \/ o[1] = 172 /\ o[2] \in 16 .. 31
  \/ o[1] = 192 /\ o[2] = 168

(* C38: ipToNumber of a.b.c.d is the unsigned number whose four bytes are
   a, b, c, d, for the octets on both sides of the sign bit and for the
   addresses dns.lookup gave; and isPrivateIp is true for an IPv4 address
   exactly when it lies in one of the five blocks *)
C38_UnsignedAndExactRanges ==
  /\ \A a, b, c, d \in OctetSamples :
       ipToNumber(<< a, b, c, d >>) = << a, b, c, d >>
  /\ \A ip \in checked.dns.addresses :
       ip.family = 4 =>
         /\ ipToNumber(ip.octets) = ip.octets
         /\ isPrivateIp(ip) <=> InPrivateBlock(ip.octets)

C38_Witness ==
  /\ checked.n = 1
  /\ checked.dns.addresses = {V4(255, 255, 255, 255), V4(172, 31, 255, 255)}
  /\ isPrivateIp(V4(172, 31, 255, 255))
  /\ ~isPrivateIp(V4(255, 255, 255, 255))

====
